---- MODULE Spec2Model ----
(***************************************************************************)
(* Vulkan pipeline manager of the drv3d_vulkan driver:                     *)
(*   prog/engine/drv/drv3d_vulkan/pipeline/manager.h                       *)
(*   prog/engine/drv/drv3d_vulkan/pipeline/main_pipelines.cpp              *)
(*                                                                         *)
(* One PipelineManagerStorage<ComputePipeline> (layouts + slot array), the *)
(* pool of pipeline objects (compute and graphics), the background         *)
(* pipeline compiler (queue + worker threads) and the owning thread that   *)
(* serialises add / takeOut / unload / bind / deferred cleanup.            *)
(*                                                                         *)
(* The background compiler (queue, waitFor), the handle accessors of       *)
(* BasePipeline and the creator of graphics variants are declared outside  *)
(* the files at hand; they are modelled from the design document and are   *)
(* marked as such where they are defined.                                  *)
(***************************************************************************)
EXTENDS Integers, Sequences, FiniteSets, TLC

\* ------------------------------------------------------------------ bounds
\* pipeline objects constructed in one run (compute and graphics together)
MaxPipes == 3
\* pipeline objects constructed in one run when the storage runs together with
\* the owning thread's bind / cleanup calls and the compile workers
MaxCompiles == 2
\* largest LinearStorageIndex handed to add / takeOut / valid
MaxIndex == 1
\* number of structurally different layout descriptions
NumLayoutDescs == 2
\* background compile worker threads
NumWorkers == 2

Indexes == 0..MaxIndex
LayoutDescs == 1..NumLayoutDescs
PipeIds == 1..MaxPipes

\* outcome of the native vkCreate*Pipelines call: a handle, VK_SUCCESS with a
\* null handle, or an error code
CompileResults == {"ok", "ok_null", "error"}

\* native render pass objects a graphics pipeline can be built on
NativePasses == {1, 2}

VARIABLES
  layouts,        \* Tab<LayoutType *> layouts: sequence of [id, desc]; a layout
                  \* object is identified by its place in the store
  pipelines,      \* Tab<PipelineType *> pipelines: sequence of pipe ids, 0 = nullptr
  pipes,          \* the pipeline objects ever constructed, by identity
  nextPipe,       \* identity of the next pipeline object constructed
  delayedCleanup, \* pipelines taken out of the storage, awaiting CLEANUP_DESTROY
  compileQueue,   \* pipelineCompiler: pipelines queued for background compile
  compiling,      \* the pipelines the compile workers are inside compile() of
  owner,          \* the owning thread: the call it is inside of, and on which pipeline
  fatal,          \* the process has been terminated (fatal error / failed assertion)
  call,           \* the last call of an operation that only computes, or of the
                  \* toggle's setter: its name, its arguments and what it returned
  asyncCompileAllowed, \* PipelineManager::asyncCompileAllowed
  compileRefs     \* per native render pass: its pipeline-compile references

vars == <<layouts, pipelines, pipes, nextPipe, delayedCleanup,
          compileQueue, compiling, owner, fatal, call, asyncCompileAllowed, compileRefs>>

\* ------------------------------------------------------------ program ids
\* ProgramID: a namespace tag and a dense index
makeID(index) == [ns |-> "compute", idx |-> index]

checkID(program) == program.ns = "compute"

\* the identifiers callers may hand in: of this kind, of another kind, of no
\* kind, with indexes inside and outside the slot array
ProgramIds == [ns : {"compute", "graphics", "none"}, idx : (-1)..(MaxIndex + 1)]

getIndexFromID(program) == program.idx

\* ------------------------------------------------------------ pipeline objects
NoPipe ==
  [kind |-> "none", life |-> "none", layout |-> 0, handle |-> 0, phase |-> "none",
   \* info.layout and the compile mode the pipeline was constructed with
   layoutInfo |-> 0, allocated |-> FALSE,
   \* compileScratch: the pointer, and the fields of the scratch it points to
   scratch |-> "null", progIdx |-> 0, parent |-> 0, nativeRP |-> 0,
   deriv |-> FALSE, baseIndex |-> 0, baseHandle |-> 0, ret |-> 0]

\* the native handle the driver returns for pipeline p on success
NativeHandle(p) == p

\* BasePipeline::getHandle: plain read of the handle field
getHandle(p) == pipes[p].handle

\* BasePipeline::getCompiledHandle: the handle as published by compile()
getCompiledHandle(p) == pipes[p].handle

\* BasePipeline::checkCompiled
checkCompiled(p) == getCompiledHandle(p) # 0

\* ComputePipeline::pendingCompilation
pendingCompilation(p) == ~checkCompiled(p)

\* ------------------------------------------------------------ layout store
\* LayoutType::matches: structural equality of the creation info
matches(layout, layoutInfo) == layout.desc = layoutInfo

FirstMatch(ls, layoutInfo) ==
  LET hits == {i \in 1..Len(ls) : matches(ls[i], layoutInfo)}
  IN IF hits = {} THEN 0 ELSE CHOOSE i \in hits : \A j \in hits : i <= j

\* a store that never looks for an existing layout
findOrAddLayout_AlwaysAdd(ls, layoutInfo, newId) ==
  [layouts |-> Append(ls, [id |-> newId, desc |-> layoutInfo]), layout |-> newId]

\* PipelineManagerStorage::findOrAddLayout: first match, else append
findOrAddLayout(ls, layoutInfo, newId) ==
  LET i == FirstMatch(ls, layoutInfo)
  IN IF i # 0
       THEN [layouts |-> ls, layout |-> ls[i].id]
       ELSE [layouts |-> Append(ls, [id |-> newId, desc |-> layoutInfo]),
             layout |-> newId]

\* ------------------------------------------------------------ slot array
\* PipelineManagerStorage::ensureSpaceForIndex: grow with zero-filled slots
ensureSpaceForIndex(ps, index) ==
  IF Len(ps) <= index
    THEN ps \o [k \in 1..(index - Len(ps) + 1) |-> 0]
    ELSE ps

\* a takeOut that returns the occupant and leaves it in the slot
takeOut_KeepSlot(ps, index) ==
  [pipelines |-> ps, ret |-> ps[index + 1]]

\* PipelineManagerStorage::takeOut: the occupant, and the array with the slot nulled
takeOut(ps, index) ==
  [pipelines |-> [ps EXCEPT ![index + 1] = 0], ret |-> ps[index + 1]]

\* a valid() that takes the identifiers of every kind for its own
valid_NoNamespaceCheck(program) ==
  LET index == getIndexFromID(program)
  IN index >= 0 /\ index < Len(pipelines) /\ pipelines[index + 1] # 0

\* a valid() that does not look into the slot
valid_NoNullCheck(program) ==
  LET index == getIndexFromID(program)
  IN checkID(program) /\ index >= 0 /\ index < Len(pipelines)

\* PipelineManagerStorage::valid
valid(program) ==
  LET index == getIndexFromID(program)
  IN /\ checkID(program)
     /\ index >= 0
     /\ index < Len(pipelines)
     /\ pipelines[index + 1] # 0

\* PipelineManagerStorage::get
get(program) == pipelines[getIndexFromID(program) + 1]

\* G_ASSERT(!pipelines[index]) of add, on the array as ensureSpaceForIndex leaves it
AddSlotEmpty(index) == ensureSpaceForIndex(pipelines, index)[index + 1] = 0

\* ------------------------------------------------------------ construction
\* ComputePipeline::ComputePipeline up to the queue / compile decision
ComputeCtor(prog, layout, layoutInfo, allowAsyncCompile) ==
  [NoPipe EXCEPT !.kind = "compute", !.life = "live", !.progIdx = getIndexFromID(prog),
                 !.layout = layout, !.layoutInfo = layoutInfo,
                 !.allocated = allowAsyncCompile,
                 !.scratch = IF allowAsyncCompile THEN "heap" ELSE "local",
                 !.phase = "constructed"]

\* a constructor that hands every pipeline to the background compiler
ctorQueues_Always(allowAsyncCompile) == TRUE

\* ComputePipeline::ComputePipeline: if (info.allowAsyncCompile) queue(this) else compile()
ctorQueues(allowAsyncCompile) == allowAsyncCompile

\* the retHandle of compile() after the native call
RetHandle(p, res) == IF res = "ok" THEN NativeHandle(p) ELSE 0

\* a compile() that lets a null handle of a successful call through
ComputeCompileFatal_ErrorOnly(res) == res = "error"

\* ComputePipeline::compile, result handling: only a non-null handle of a
\* successful call gets past VULKAN_EXIT_ON_FAIL
ComputeCompileFatal(res) == res # "ok"

\* the fields of a scratch that is gone
NoScratch(rec) ==
  [rec EXCEPT !.progIdx = 0, !.parent = 0, !.nativeRP = 0, !.deriv = FALSE,
              !.baseIndex = 0, !.baseHandle = 0, !.ret = 0]

\* the tail of compile(): the heap scratch deleted, the handle stored; the
\* pointer to a deleted scratch dangles
PublishHandle(rec, h) ==
  IF rec.allocated
    THEN [NoScratch(rec) EXCEPT !.handle = h, !.scratch = "freed", !.phase = "published"]
    ELSE [rec EXCEPT !.handle = h, !.phase = "published"]

\* compileScratch = nullptr
ClearScratch(rec) == [NoScratch(rec) EXCEPT !.scratch = "null", !.phase = "done"]

\* a pipeline object after shutdown and delete
Destroyed(rec) == [NoPipe EXCEPT !.life = "dead"]

\* the layout pointer of a pipeline that outlived the layouts of its storage
DanglingLayout == -1

OwnerIdle == [pc |-> "idle", p |-> 0, waited |-> FALSE]

\* no pipeline holds a compile reference on any native render pass
NoCompileRefs == [r \in NativePasses |-> 0]

\* no computing operation has been called yet
NoCall == [op |-> "none"]

Init ==
  /\ layouts = <<>>
  /\ pipelines = <<>>
  /\ pipes = [p \in PipeIds |-> NoPipe]
  /\ nextPipe = 1
  /\ delayedCleanup = {}
  /\ compileQueue = <<>>
  /\ compiling = {}
  /\ owner = OwnerIdle
  /\ fatal = FALSE
  /\ call = NoCall
  /\ asyncCompileAllowed = FALSE
  /\ compileRefs = NoCompileRefs

\* the process is terminated: nothing of its state is left
Terminate ==
  /\ layouts' = <<>>
  /\ pipelines' = <<>>
  /\ pipes' = [p \in PipeIds |-> NoPipe]
  /\ nextPipe' = 1
  /\ delayedCleanup' = {}
  /\ compileQueue' = <<>>
  /\ compiling' = {}
  /\ owner' = OwnerIdle
  /\ fatal' = TRUE
  /\ call' = NoCall
  /\ asyncCompileAllowed' = FALSE
  /\ compileRefs' = NoCompileRefs

\* ------------------------------------------------------------ storage operations
\* an add whose empty-slot assertion is evaluated before anything else is done
addBeforeAssert_AssertFirst(ls, ps, index, layoutInfo) ==
  [layouts |-> ls, pipelines |-> ps]

\* PipelineManagerStorage::add up to G_ASSERT(!pipelines[index]): the layout
\* found or appended, then the array grown to hold index
addBeforeAssert(ls, ps, index, layoutInfo) ==
  [layouts |-> findOrAddLayout(ls, layoutInfo, Len(ls) + 1).layouts,
   pipelines |-> ensureSpaceForIndex(ps, index)]

\* add stopped by G_ASSERT(!pipelines[index]): the process is terminated; the
\* call keeps the storage as add was entered with and as add had left it by then
AddRejected(index, layoutInfo) ==
  /\ layouts' = <<>>
  /\ pipelines' = <<>>
  /\ pipes' = [p \in PipeIds |-> NoPipe]
  /\ nextPipe' = 1
  /\ delayedCleanup' = {}
  /\ compileQueue' = <<>>
  /\ compiling' = {}
  /\ owner' = OwnerIdle
  /\ fatal' = TRUE
  /\ call' = [op |-> "add", index |-> index, layoutInfo |-> layoutInfo,
              entered |-> [layouts |-> layouts, pipelines |-> pipelines],
              reached |-> addBeforeAssert(layouts, pipelines, index, layoutInfo)]
  /\ asyncCompileAllowed' = FALSE
  /\ compileRefs' = NoCompileRefs

\* PipelineManagerStorage<ComputePipeline>::add, with the constructor it runs.
\* A failed G_ASSERT either terminates the process or, in a build without
\* assertions, lets the code go on.
Add(index, layoutInfo, allowAsyncCompile, res, assertsAbort) ==
  /\ ~fatal /\ owner.pc = "idle" /\ nextPipe <= MaxPipes
  /\ LET fl == findOrAddLayout(layouts, layoutInfo, Len(layouts) + 1)
         ps == ensureSpaceForIndex(pipelines, index)
         p == nextPipe
         ctor == ComputeCtor(makeID(index), fl.layout, layoutInfo, allowAsyncCompile)
     IN IF ~AddSlotEmpty(index) /\ assertsAbort
          THEN \* G_ASSERT(!pipelines[index]) stops the process
               AddRejected(index, layoutInfo)
          ELSE IF ~ctorQueues(allowAsyncCompile) /\ ComputeCompileFatal(res)
            THEN \* compile() inside the constructor ends in the fatal exit
                 Terminate
            ELSE /\ layouts' = fl.layouts
                 /\ pipelines' = [ps EXCEPT ![index + 1] = p]
                 /\ nextPipe' = p + 1
                 /\ IF ctorQueues(allowAsyncCompile)
                      THEN \* pipelineCompiler.queue(this)
                           /\ pipes' = [pipes EXCEPT ![p] = [ctor EXCEPT !.phase = "queued"]]
                           /\ compileQueue' = Append(compileQueue, p)
                      ELSE \* compile() inside the constructor
                           /\ pipes' = [pipes EXCEPT ![p] =
                                          ClearScratch(PublishHandle(ctor, RetHandle(p, res)))]
                           /\ UNCHANGED compileQueue
                 /\ UNCHANGED <<delayedCleanup, compiling, owner, fatal, call, asyncCompileAllowed, compileRefs>>

\* PipelineManagerStorage::takeOut(index) as PipelineManager::prepareRemoval uses
\* it: the pointer returned is kept for deferred destruction
TakeOut(index, assertsAbort) ==
  /\ ~fatal /\ owner.pc = "idle"
  /\ index < Len(pipelines)
  /\ LET t == takeOut(pipelines, index)
     IN IF t.ret = 0 /\ assertsAbort
          THEN \* G_ASSERT(ret) stops the process
               Terminate
          ELSE /\ pipelines' = t.pipelines
               /\ delayedCleanup' = delayedCleanup \cup ({t.ret} \ {0})
               /\ UNCHANGED <<layouts, pipes, nextPipe, compileQueue,
                              compiling, owner, fatal, call, asyncCompileAllowed, compileRefs>>

\* a shutdownArray that calls shutdown on every entry, null or not
shutdownArray_NoNullCheck(arr, tightlyPacked) == arr

\* PipelineManagerStorage::shutdownArray: the entries shutdown() is called on, in
\* the order of the calls
shutdownArray(arr, tightlyPacked) ==
  SelectSeq(arr, LAMBDA i : tightlyPacked \/ i # 0)

\* PipelineManagerStorage::unload: the shutdown() calls it makes, in order:
\* shutdownArray<false> on the pipelines, then shutdownArray<true> on the layouts
unloadShutdowns(ps, ls) ==
  LET pc == shutdownArray(ps, FALSE)
      lc == shutdownArray(ls, TRUE)
  IN [k \in 1..Len(pc) |-> [what |-> "pipeline", obj |-> pc[k]]]
     \o [k \in 1..Len(lc) |-> [what |-> "layout", obj |-> lc[k].id]]

\* PipelineManagerStorage::unload: shutdown of every non-null slot, the array
\* deleted and shrunk, then the same for the layouts
Unload ==
  /\ ~fatal /\ owner.pc = "idle"
  /\ LET calls == unloadShutdowns(pipelines, layouts)
         inSlots == {calls[k].obj : k \in {j \in 1..Len(calls) : calls[j].what = "pipeline"}}
     IN pipes' = [p \in PipeIds |->
                    IF p \in inSlots THEN Destroyed(pipes[p])
                    ELSE IF pipes[p].layout # 0
                      THEN [pipes[p] EXCEPT !.layout = DanglingLayout]
                      ELSE pipes[p]]
  /\ pipelines' = <<>>
  /\ layouts' = <<>>
  /\ UNCHANGED <<nextPipe, delayedCleanup, compileQueue, compiling, owner,
                 fatal, call, asyncCompileAllowed, compileRefs>>

\* ------------------------------------------------------------ background compiler
\* a pipeline object that has been deleted while a thread still works on it
Freed(p) == pipes[p].life = "dead"

\* a createPipelineObject that marks every child of a parent as a derivative
createPipelineObject_NoCompiledCheck(rec, parentHandle) ==
  IF rec.parent # 0
    THEN [rec EXCEPT !.deriv = TRUE, !.baseIndex = -1, !.baseHandle = parentHandle]
    ELSE rec

\* GraphicsPipeline::createPipelineObject, the create-info it hands to the driver:
\* parentHandle is what parentPipe's handle reads as (0 without a parent)
createPipelineObject(rec, parentHandle) ==
  IF rec.parent # 0 /\ parentHandle # 0
    THEN [rec EXCEPT !.deriv = TRUE, !.baseIndex = -1, !.baseHandle = parentHandle]
    ELSE rec

ParentHandle(rec) == IF rec.parent = 0 THEN 0 ELSE getCompiledHandle(rec.parent)

\* GraphicsPipeline::compile treats only an error code as fatal (VULKAN_EXIT_ON_FAIL
\* in createPipelineObject); a null handle of a successful call is logged
GraphicsCompileFatal(res) == res = "error"

CompileFatal(rec, res) ==
  IF rec.kind = "compute" THEN ComputeCompileFatal(res) ELSE GraphicsCompileFatal(res)

\* the create-info and the native call of compile()
CreateNative(p, res) ==
  LET rec == pipes[p]
      ci == IF rec.kind = "graphics" THEN createPipelineObject(rec, ParentHandle(rec))
            ELSE rec
  IN [ci EXCEPT !.ret = RetHandle(p, res), !.phase = "created"]

\* PipelineCompiler worker: an idle worker takes the oldest queued pipeline and
\* runs its compile() up to the return of vkCreate*Pipelines
WorkerCompile(res) ==
  /\ ~fatal /\ Cardinality(compiling) < NumWorkers /\ compileQueue # <<>>
  /\ LET p == Head(compileQueue)
     IN IF ~Freed(p) /\ CompileFatal(pipes[p], res)
          THEN Terminate
          ELSE /\ compiling' = compiling \cup {p}
               /\ compileQueue' = Tail(compileQueue)
               /\ pipes' = IF Freed(p) THEN pipes
                           ELSE [pipes EXCEPT ![p] = CreateNative(p, res)]
               /\ UNCHANGED <<layouts, pipelines, nextPipe, delayedCleanup, owner, fatal, call, asyncCompileAllowed, compileRefs>>

\* a compile() that keeps its reference on the render pass
compileRefsAfterCompile_NoRelease(refs, nativeRP) == refs

\* GraphicsPipeline::compile: if (compileScratch->nativeRP)
\* compileScratch->nativeRP->releasePipelineCompileRef(); nativeRP is 0 for a
\* legacy pass class and for a compute pipeline, which has no such call
compileRefsAfterCompile(refs, nativeRP) ==
  IF nativeRP # 0 THEN [refs EXCEPT ![nativeRP] = @ - 1] ELSE refs

\* worker thread: the render pass reference released, then delete
\* compileScratch; setCompiledHandle(retHandle)
WorkerPublish(p) ==
  /\ ~fatal /\ p \in compiling
  /\ ~Freed(p) /\ pipes[p].phase = "created"
  /\ compileRefs' = compileRefsAfterCompile(compileRefs, pipes[p].nativeRP)
  /\ pipes' = [pipes EXCEPT ![p] = PublishHandle(pipes[p], pipes[p].ret)]
  /\ UNCHANGED <<layouts, pipelines, nextPipe, delayedCleanup, compileQueue,
                 compiling, owner, fatal, call, asyncCompileAllowed>>

\* worker thread: compileScratch = nullptr, compile() returns
WorkerClear(p) ==
  /\ ~fatal /\ p \in compiling
  /\ ~Freed(p) /\ pipes[p].phase = "published"
  /\ pipes' = [pipes EXCEPT ![p] = ClearScratch(pipes[p])]
  /\ compiling' = compiling \ {p}
  /\ UNCHANGED <<layouts, pipelines, nextPipe, delayedCleanup, compileQueue,
                 owner, fatal, call, asyncCompileAllowed, compileRefs>>

\* worker thread going on with compile() on a pipeline object that was deleted
\* under it: undefined behaviour, the process crashes or the accesses land in
\* freed memory unnoticed
WorkerOnFreed(p, crash) ==
  /\ ~fatal /\ p \in compiling /\ Freed(p)
  /\ IF crash
       THEN Terminate
       ELSE /\ compiling' = compiling \ {p}
            /\ UNCHANGED <<layouts, pipelines, pipes, nextPipe,
                           delayedCleanup, compileQueue, owner, fatal, call, asyncCompileAllowed, compileRefs>>

\* ------------------------------------------------------------ compute bind
\* a bind that never looks whether the pipeline is compiled
bindMustWait_Never(p) == FALSE

\* ComputePipeline::bind: if (!checkCompiled()) pipelineCompiler.waitFor(this)
bindMustWait(p) == ~checkCompiled(p)

\* ComputePipeline::bind on the pipeline of an occupied slot: the checkCompiled
\* test that sends it into pipelineCompiler.waitFor or straight to the bind call
Bind(index) ==
  /\ ~fatal /\ owner.pc = "idle"
  /\ valid(makeID(index))
  /\ LET p == get(makeID(index))
     IN owner' = [pc |-> IF bindMustWait(p) THEN "bind_wait" ELSE "bind_issue",
                  p |-> p, waited |-> bindMustWait(p)]
  /\ UNCHANGED <<layouts, pipelines, pipes, nextPipe, delayedCleanup,
                 compileQueue, compiling, fatal, call, asyncCompileAllowed, compileRefs>>

\* a waitFor that returns without looking at the pipeline
waitForDone_NoWait(p) == TRUE

\* PipelineCompiler::waitFor(p) may return: p has been compiled
waitForDone(p) == checkCompiled(p)

\* pipelineCompiler.waitFor(this) returns to its caller
WaitForReturn ==
  /\ ~fatal /\ owner.pc \in {"bind_wait", "cleanup_wait"}
  /\ waitForDone(owner.p)
  /\ owner' = [owner EXCEPT !.pc = IF owner.pc = "bind_wait" THEN "bind_issue"
                                   ELSE "cleanup_shutdown"]
  /\ UNCHANGED <<layouts, pipelines, pipes, nextPipe, delayedCleanup,
                 compileQueue, compiling, fatal, call, asyncCompileAllowed, compileRefs>>

\* ComputePipeline::bind: vkCmdBindPipeline(.., getHandle())
BindIssue ==
  /\ ~fatal /\ owner.pc = "bind_issue"
  /\ owner' = OwnerIdle
  /\ UNCHANGED <<layouts, pipelines, pipes, nextPipe, delayedCleanup,
                 compileQueue, compiling, fatal, call, asyncCompileAllowed, compileRefs>>

\* ------------------------------------------------------------ deferred destruction
\* ComputePipeline::onDelayedCleanupFinish<CLEANUP_DESTROY> of a taken-out
\* pipeline: the checkCompiled test that sends it into waitFor or to shutdown
Cleanup(p) ==
  /\ ~fatal /\ owner.pc = "idle"
  /\ p \in delayedCleanup
  /\ owner' = [pc |-> IF ~checkCompiled(p) THEN "cleanup_wait" ELSE "cleanup_shutdown",
               p |-> p, waited |-> ~checkCompiled(p)]
  /\ UNCHANGED <<layouts, pipelines, pipes, nextPipe, delayedCleanup,
                 compileQueue, compiling, fatal, call, asyncCompileAllowed, compileRefs>>

\* onDelayedCleanupFinish: shutdown(device); delete this
CleanupFinish ==
  /\ ~fatal /\ owner.pc = "cleanup_shutdown"
  /\ pipes' = [pipes EXCEPT ![owner.p] = Destroyed(pipes[owner.p])]
  /\ delayedCleanup' = delayedCleanup \ {owner.p}
  /\ owner' = OwnerIdle
  /\ UNCHANGED <<layouts, pipelines, nextPipe, compileQueue, compiling, fatal, call, asyncCompileAllowed, compileRefs>>

\* ------------------------------------------------------------ graphics pipelines
\* GraphicsPipeline::GraphicsPipeline: the scratch handed in by the creator is
\* filled; nothing is compiled or queued here
GraphicsCtor(parentPipeline, allocated, nativeRP) ==
  [NoPipe EXCEPT !.kind = "graphics", !.life = "live", !.allocated = allocated,
                 !.nativeRP = nativeRP,
                 !.scratch = IF allocated THEN "heap" ELSE "local",
                 !.phase = "constructed", !.parent = parentPipeline,
                 !.baseIndex = 0, !.baseHandle = 0, !.deriv = FALSE]

GraphicsPipes == {p \in PipeIds : pipes[p].kind = "graphics" /\ pipes[p].life = "live"}

\* GraphicsPipeline::GraphicsPipeline: if (info.nativeRP)
\* csd.nativeRP->addPipelineCompileRef(); nativeRP is 0 for a legacy pass class
compileRefsAfterCtor(refs, nativeRP) ==
  IF nativeRP # 0 THEN [refs EXCEPT ![nativeRP] = @ + 1] ELSE refs

\* the creator of a graphics variant constructs the pipeline, on a native
\* render pass or (nativeRP = 0) on a legacy pass class
NewGraphics(parentPipeline, allocated, nativeRP) ==
  /\ ~fatal /\ owner.pc = "idle" /\ nextPipe <= MaxPipes
  /\ parentPipeline \in GraphicsPipes \cup {0}
  /\ pipes' = [pipes EXCEPT ![nextPipe] = GraphicsCtor(parentPipeline, allocated, nativeRP)]
  /\ compileRefs' = compileRefsAfterCtor(compileRefs, nativeRP)
  /\ nextPipe' = nextPipe + 1
  /\ owner' = [pc |-> "graphics_constructed", p |-> nextPipe, waited |-> FALSE]
  /\ UNCHANGED <<layouts, pipelines, delayedCleanup, compileQueue, compiling,
                 fatal, call, asyncCompileAllowed>>

\* the creator hands a pipeline with allocated scratch to the background compiler
GraphicsQueue ==
  /\ ~fatal /\ owner.pc = "graphics_constructed" /\ pipes[owner.p].allocated
  /\ pipes' = [pipes EXCEPT ![owner.p].phase = "queued"]
  /\ compileQueue' = Append(compileQueue, owner.p)
  /\ owner' = OwnerIdle
  /\ UNCHANGED <<layouts, pipelines, nextPipe, delayedCleanup, compiling,
                 fatal, call, asyncCompileAllowed, compileRefs>>

\* the creator runs GraphicsPipeline::compile inline on its own scratch: compile()
\* up to the return of vkCreateGraphicsPipelines
GraphicsCompileInline(res) ==
  /\ ~fatal /\ owner.pc = "graphics_constructed" /\ ~pipes[owner.p].allocated
  /\ IF GraphicsCompileFatal(res)
       THEN Terminate
       ELSE /\ pipes' = [pipes EXCEPT ![owner.p] = CreateNative(owner.p, res)]
            /\ owner' = [owner EXCEPT !.pc = "graphics_compiling"]
            /\ UNCHANGED <<layouts, pipelines, nextPipe, delayedCleanup, compileQueue,
                           compiling, fatal, call, asyncCompileAllowed, compileRefs>>

\* the tail of the inline compile(): the render pass reference released,
\* setHandle(retHandle); compileScratch = nullptr
GraphicsCompileFinish ==
  /\ ~fatal /\ owner.pc = "graphics_compiling"
  /\ compileRefs' = compileRefsAfterCompile(compileRefs, pipes[owner.p].nativeRP)
  /\ pipes' = [pipes EXCEPT ![owner.p] =
                 ClearScratch(PublishHandle(pipes[owner.p], pipes[owner.p].ret))]
  /\ owner' = OwnerIdle
  /\ UNCHANGED <<layouts, pipelines, nextPipe, delayedCleanup, compileQueue, compiling,
                 fatal, call, asyncCompileAllowed>>

\* GraphicsPipeline::bind is entered for a pipeline its creator has handed out
GraphicsBind(p) ==
  /\ ~fatal /\ owner.pc = "idle"
  /\ p \in GraphicsPipes
  /\ owner' = [pc |-> "graphics_bind", p |-> p, waited |-> FALSE]
  /\ UNCHANGED <<layouts, pipelines, pipes, nextPipe, delayedCleanup,
                 compileQueue, compiling, fatal, call, asyncCompileAllowed, compileRefs>>

\* GraphicsPipeline::bind: vkCmdBindPipeline(.., getHandle())
GraphicsBindIssue ==
  /\ ~fatal /\ owner.pc = "graphics_bind"
  /\ owner' = OwnerIdle
  /\ UNCHANGED <<layouts, pipelines, pipes, nextPipe, delayedCleanup,
                 compileQueue, compiling, fatal, call, asyncCompileAllowed, compileRefs>>

\* ------------------------------------------------------------ specifications
WorkerStep ==
  \/ \E res \in CompileResults : WorkerCompile(res)
  \/ \E p \in PipeIds : WorkerPublish(p)
  \/ \E p \in PipeIds : WorkerClear(p)

WorkerFreedStep == \E p \in PipeIds, crash \in BOOLEAN : WorkerOnFreed(p, crash)

AddStep(limit, descs, asyncs) ==
  \E index \in Indexes, d \in descs, a \in asyncs, res \in CompileResults,
     ab \in BOOLEAN : nextPipe <= limit /\ Add(index, d, a, res, ab)

TakeOutStep == \E index \in Indexes, ab \in BOOLEAN : TakeOut(index, ab)

ComputeStep ==
  \/ \E index \in Indexes : Bind(index)
  \/ WaitForReturn
  \/ BindIssue
  \/ \E p \in PipeIds : Cleanup(p)
  \/ CleanupFinish

\* construction and compilation of graphics pipelines on the given passes
GraphicsBuildStep(passes) ==
  \/ \E p \in PipeIds \cup {0}, a \in BOOLEAN, rp \in passes : NewGraphics(p, a, rp)
  \/ GraphicsQueue
  \/ \E res \in CompileResults : GraphicsCompileInline(res)
  \/ GraphicsCompileFinish

GraphicsStep(passes) ==
  \/ GraphicsBuildStep(passes)
  \/ \E p \in PipeIds : GraphicsBind(p)
  \/ GraphicsBindIssue

\* the compute storage with the owning thread and the compile workers
Next ==
  \/ AddStep(MaxCompiles, {1}, BOOLEAN)
  \/ TakeOutStep
  \/ Unload
  \/ ComputeStep
  \/ WorkerStep
  \/ WorkerFreedStep

Spec == Init /\ [][Next]_vars

\* the storage operations alone, over every layout description, with
\* asynchronous compilation left off (PipelineManager::asyncCompileAllowed = false)
NextStorage ==
  \/ AddStep(MaxPipes, LayoutDescs, {FALSE})
  \/ TakeOutStep
  \/ Unload

SpecStorage == Init /\ [][NextStorage]_vars

\* construction and compilation of pipelines of both kinds, and the graphics bind
NextPipelines ==
  \/ AddStep(MaxPipes, {1}, BOOLEAN)
  \/ GraphicsStep({0})
  \/ WorkerStep

SpecPipelines == Init /\ [][NextPipelines]_vars

\* ------------------------------------------------------------ layout deduplication
\* the pipelines a storage has added since it was last unloaded
AddedPipes ==
  {p \in PipeIds : pipes[p].kind = "compute" /\ pipes[p].life = "live"
                   /\ pipes[p].layout # DanglingLayout}

\* C1: any two pipelines added to one storage with matching layout creation info
\* reference the same layout object, the one whose description matches that
\* info; the layouts list never holds two entries matching the same description.
C1_LayoutDedup ==
  /\ \A p, q \in AddedPipes :
       pipes[p].layoutInfo = pipes[q].layoutInfo => pipes[p].layout = pipes[q].layout
  /\ \A p \in AddedPipes :
       /\ pipes[p].layout \in 1..Len(layouts)
       /\ matches(layouts[pipes[p].layout], pipes[p].layoutInfo)
  /\ \A i, j \in 1..Len(layouts) : matches(layouts[i], layouts[j].desc) => i = j

\* a description used, another one used after it, then the first one again: the
\* third pipeline shares the layout of the first and the store holds two layouts
C1_Witness ==
  /\ Len(layouts) = 2
  /\ \E p, r, q \in AddedPipes :
       /\ p < r /\ r < q
       /\ pipes[p].layoutInfo = pipes[q].layoutInfo
       /\ pipes[p].layoutInfo # pipes[r].layoutInfo
       /\ pipes[p].layout = pipes[q].layout
       /\ pipes[p].layout # pipes[r].layout

\* ------------------------------------------------------------ compute bind
\* C2: when ComputePipeline::bind issues vkCmdBindPipeline the pipeline is alive
\* and its handle is non-null, whether bind found it compiled or had to wait.
C2_ComputeBindNonNull ==
  owner.pc = "bind_issue" =>
    /\ pipes[owner.p].life = "live"
    /\ getHandle(owner.p) # 0

\* bind reaches the bind call after having waited for a pending pipeline
C2_Witness ==
  /\ owner.pc = "bind_issue"
  /\ owner.waited
  /\ pipes[owner.p].allocated

\* ------------------------------------------------------------ handle after construction
\* the pipelines whose constructor has returned with asynchronous compilation off
SyncConstructed == {p \in PipeIds : pipes[p].life = "live" /\ ~pipes[p].allocated}

\* C3 as written: every pipeline constructed with asynchronous compilation
\* disabled, compute or graphics, has a non-null handle once its constructor
\* has returned.
C3_AsWritten == \A p \in SyncConstructed : getHandle(p) # 0

\* C3: a ComputePipeline constructed with asynchronous compilation disabled has a
\* non-null handle once its constructor has returned; a GraphicsPipeline comes
\* out of its constructor with a null handle, whatever the compile mode.
C3_HandleAfterCtor ==
  /\ \A p \in SyncConstructed : pipes[p].kind = "compute" => getHandle(p) # 0
  /\ \A p \in PipeIds :
       pipes[p].kind = "graphics" /\ pipes[p].phase = "constructed" => getHandle(p) = 0

\* a compute pipeline compiled by its constructor next to a graphics pipeline
\* whose constructor has just returned on a caller-owned scratch
C3_Witness ==
  /\ \E p \in SyncConstructed : pipes[p].kind = "compute" /\ getHandle(p) = NativeHandle(p)
  /\ owner.pc = "graphics_constructed"
  /\ owner.p \in SyncConstructed
  /\ getHandle(owner.p) = 0

\* ------------------------------------------------------------ graphics bind
\* the compile of p has been started or queued and has not stored its handle yet
CompilePending(p) == pipes[p].phase \in {"queued", "created"}

\* C4: GraphicsPipeline::bind never issues vkCmdBindPipeline with a null handle
\* for a graphics pipeline whose compile is still pending: it blocks until that
\* pipeline is compiled.
C4_GraphicsBindWaits ==
  owner.pc = "graphics_bind" /\ CompilePending(owner.p) => getHandle(owner.p) # 0

\* ------------------------------------------------------------ takeOut, valid, add
\* C5: takeOut of an occupied slot leaves valid() false for that index and the
\* slot empty for the assertion of add; an add on a slot that is empty passes
\* the assertion and installs the new pipeline in that slot (the process ends
\* only if the inline compile of the constructor fails).
C5_TakeOutThenAdd ==
  [][\A i \in Indexes :
       /\ (valid(makeID(i)) /\ \E ab \in BOOLEAN : TakeOut(i, ab)) =>
            /\ ~fatal'
            /\ ~valid(makeID(i))'
            /\ AddSlotEmpty(i)'
       /\ \A d \in LayoutDescs, a \in BOOLEAN, res \in CompileResults, ab \in BOOLEAN :
            (AddSlotEmpty(i) /\ Add(i, d, a, res, ab)) =>
               IF ~a /\ ComputeCompileFatal(res)
                 THEN fatal'
                 ELSE /\ ~fatal'
                      /\ valid(makeID(i))'
                      /\ get(makeID(i))' = nextPipe
                      /\ pipes'[nextPipe].life = "live"]_vars

\* the only slot the storage has used since it was last unloaded holds the
\* pipeline of a later add than the one taken out of it, which still awaits its
\* deferred destruction
C5_Witness ==
  /\ Len(pipelines) = 1
  /\ valid(makeID(0))
  /\ \E p \in delayedCleanup \cap AddedPipes : get(makeID(0)) > p

\* ------------------------------------------------------------ slot ownership
\* the pipeline the slot array owns at a place, 0 for none
SlotPipes == {pipelines[i] : i \in 1..Len(pipelines)} \ {0}

C6_Slots ==
  /\ \A i \in 1..Len(pipelines) :
       pipelines[i] # 0 =>
         /\ pipelines[i] \in PipeIds
         /\ pipes[pipelines[i]].life = "live"
         /\ \A j \in 1..Len(pipelines) : pipelines[j] = pipelines[i] => j = i
  /\ SlotPipes \cap delayedCleanup = {}
  /\ owner.pc \in {"cleanup_wait", "cleanup_shutdown"} => owner.p \notin SlotPipes

C6_TakeOutFrame ==
  \A i \in Indexes :
    (\E ab \in BOOLEAN : TakeOut(i, ab)) /\ ~fatal' =>
       /\ Len(pipelines') = Len(pipelines)
       /\ pipelines'[i + 1] = 0
       /\ \A j \in 1..Len(pipelines) : j # i + 1 => pipelines'[j] = pipelines[j]
       /\ pipelines[i + 1] # 0 => pipelines[i + 1] \in delayedCleanup'

\* C6: every slot is null or holds one live pipeline, no pipeline is in two
\* slots, and none is owned by the storage and by the caller of takeOut at
\* once; takeOut nulls its slot, hands the occupant over, and changes no other
\* slot and not the length.
C6_SlotOwnership == []C6_Slots /\ [][C6_TakeOutFrame]_vars

\* the first of two occupied slots has been taken out
C6_Witness ==
  /\ Len(pipelines) = 2
  /\ pipelines[1] = 0
  /\ pipelines[2] # 0
  /\ \E p \in delayedCleanup : pipes[p].life = "live" /\ p < pipelines[2]

\* ------------------------------------------------------------ derivative pipelines
\* the create-info of a graphics pipeline between the native call and the
\* release of its scratch
C7_CreateInfo ==
  \A p \in PipeIds :
    pipes[p].kind = "graphics" /\ pipes[p].phase = "created" =>
      IF pipes[p].deriv
        THEN /\ pipes[p].parent # 0
             /\ pipes[p].baseIndex = -1
             /\ pipes[p].baseHandle # 0
             /\ pipes[p].baseHandle = getHandle(pipes[p].parent)
        ELSE /\ pipes[p].baseIndex = 0
             /\ pipes[p].baseHandle = 0

\* the step in which compile() of a graphics pipeline builds its create-info
C7_CreateStep ==
  \A p \in PipeIds :
    pipes[p].kind = "graphics" /\ pipes[p].phase \in {"constructed", "queued"}
      /\ pipes'[p].phase = "created" =>
        pipes'[p].deriv = (pipes[p].parent # 0 /\ checkCompiled(pipes[p].parent))

\* a child at the head of the queue whose parent is still pending
C7_ChildOfPending ==
  /\ compileQueue # <<>>
  /\ Cardinality(compiling) < NumWorkers
  /\ pipes[Head(compileQueue)].kind = "graphics"
  /\ pipes[Head(compileQueue)].parent # 0
  /\ ~checkCompiled(pipes[Head(compileQueue)].parent)

\* C7: createPipelineObject flags the create-info as a derivative, with base
\* index -1 and the parent's non-null handle as base handle, exactly when the
\* parent exists and has a compiled handle at that moment; otherwise the base
\* handle stays null without the derivative flag and the compile goes through.
\* The derivative flag never comes with a null base handle.
C7_Derivative ==
  /\ [](C7_CreateInfo /\ (C7_ChildOfPending => ENABLED WorkerCompile("ok")))
  /\ [][C7_CreateStep]_vars

\* a chain of three: the child of a compiled parent is being compiled as a
\* derivative while its own child, compiled at the same time, is not one
C7_Witness ==
  \E c, g \in PipeIds :
    /\ pipes[c].phase = "created" /\ pipes[c].deriv
    /\ pipes[c].baseHandle = NativeHandle(pipes[c].parent)
    /\ pipes[g].phase = "created" /\ pipes[g].parent = c /\ ~pipes[g].deriv
    /\ pipes[g].ret # 0

\* ------------------------------------------------------------ destruction
\* C8: no pipeline is shut down and deleted while its compile is pending: the
\* deferred cleanup and unload both force the compile to complete first.
C8_NoShutdownWhilePending ==
  [][\A p \in PipeIds :
       pipes[p].life = "live" /\ pipes'[p].life = "dead" => checkCompiled(p)]_vars

\* ------------------------------------------------------------ waitFor
\* the owning thread is inside pipelineCompiler.waitFor
InWaitFor == owner.pc \in {"bind_wait", "cleanup_wait"}

\* the owning thread has come back from a call of pipelineCompiler.waitFor
BackFromWaitFor == owner.waited /\ owner.pc \in {"bind_issue", "cleanup_shutdown"}

FairSpec ==
  Spec /\ WF_vars(WorkerStep) /\ WF_vars(WorkerFreedStep) /\ WF_vars(WaitForReturn)

\* C10: under fair scheduling of the workers every queued pipeline ends up
\* compiled, unless the process ends in the fatal exit, and a thread inside
\* waitFor comes back out of it.
C10_QueuedEventuallyCompiled ==
  /\ \A p \in PipeIds : (pipes[p].phase = "queued") ~> (checkCompiled(p) \/ fatal)
  /\ InWaitFor ~> (~InWaitFor \/ fatal)

\* ------------------------------------------------------------ scratch and handle
\* C11: a pipeline whose handle reads as valid has an empty scratch pointer, and
\* a pipeline still pending owns a live scratch: no state shows a compiled
\* handle next to a live or dangling scratch pointer.
C11_HandleXorScratch ==
  \A p \in PipeIds :
    pipes[p].life = "live" =>
      /\ checkCompiled(p) => pipes[p].scratch = "null"
      /\ ~checkCompiled(p) /\ pipes[p].phase \in {"constructed", "queued", "created"} =>
           pipes[p].scratch \in {"heap", "local"}

\* ------------------------------------------------------------ compute lifecycle
\* Constructed / Queued / Compiling / Compiled as places of compile()
PhaseRank(phase) ==
  CASE phase = "none" -> 0
    [] phase = "constructed" -> 1
    [] phase = "queued" -> 2
    [] phase = "created" -> 3
    [] phase = "published" -> 4
    [] phase = "done" -> 5

\* how often p stands in the compile queue
TimesQueued(p) == Cardinality({i \in 1..Len(compileQueue) : compileQueue[i] = p})

ComputePipes == {p \in PipeIds : pipes[p].kind = "compute" /\ pipes[p].life = "live"}

\* a pipeline is in the queue or with a worker at most once, and only if it was
\* constructed with asynchronous compilation
C12_QueuedOnce ==
  \A p \in ComputePipes :
    /\ TimesQueued(p) <= 1
    /\ TimesQueued(p) = 1 <=> pipes[p].phase = "queued"
    /\ p \in compiling => TimesQueued(p) = 0 /\ pipes[p].phase \in {"created", "published"}
    /\ ~pipes[p].allocated => TimesQueued(p) = 0 /\ p \notin compiling /\ checkCompiled(p)
    /\ pendingCompilation(p) <=> pipes[p].phase \in {"queued", "created"}

\* what the constructor leaves behind, and the way of a pipeline after it
C12_Step ==
  \A p \in PipeIds :
    /\ pipes[p].kind = "none" /\ pipes'[p].kind = "compute" =>
         IF pipes'[p].allocated
           THEN /\ pipes'[p].phase = "queued"
                /\ pendingCompilation(p)'
                /\ compileQueue' = Append(compileQueue, p)
           ELSE /\ pipes'[p].phase = "done"
                /\ ~pendingCompilation(p)'
                /\ compileQueue' = compileQueue
    /\ p \in ComputePipes /\ pipes'[p].life = "live" =>
         /\ PhaseRank(pipes'[p].phase) >= PhaseRank(pipes[p].phase)
         /\ PhaseRank(pipes'[p].phase) <= PhaseRank(pipes[p].phase) + 1
         /\ pipes'[p].allocated = pipes[p].allocated
         /\ checkCompiled(p) => getHandle(p)' = getHandle(p)

\* C12: a ComputePipeline moves only forward: constructed with asynchronous
\* compilation it is enqueued once and comes out of its constructor pending;
\* constructed without, it is compiled by its constructor and never enqueued;
\* once its handle is set it is never pending again.
C12_ComputeLifecycle == []C12_QueuedOnce /\ [][C12_Step]_vars

\* one pipeline compiled by its constructor next to one that went through the
\* queue and a worker to its handle
C12_Witness ==
  \E p, q \in ComputePipes :
    /\ ~pipes[p].allocated /\ pipes[p].phase = "done"
    /\ pipes[q].allocated /\ pipes[q].phase = "done" /\ checkCompiled(q)

\* ------------------------------------------------------------ unload
\* how often shutdown() is called on an object in a sequence of calls
TimesShutDown(calls, what, obj) ==
  Cardinality({k \in 1..Len(calls) : calls[k].what = what /\ calls[k].obj = obj})

C13_UnloadStep ==
  Unload =>
    LET calls == unloadShutdowns(pipelines, layouts)
    IN /\ \A i \in 1..Len(pipelines) :
            pipelines[i] # 0 => TimesShutDown(calls, "pipeline", pipelines[i]) = 1
       /\ \A i \in 1..Len(layouts) : TimesShutDown(calls, "layout", layouts[i].id) = 1
       /\ Len(calls) = Cardinality(SlotPipes) + Len(layouts)
       /\ \A j, k \in 1..Len(calls) :
            calls[j].what = "pipeline" /\ calls[k].what = "layout" => j < k
       /\ \A p \in PipeIds :
            pipes'[p].life = "dead" /\ pipes[p].life = "live" <=> p \in SlotPipes
       /\ pipelines' = <<>>
       /\ layouts' = <<>>
       /\ \A i \in Indexes : ~valid(makeID(i))'
       /\ \A d \in LayoutDescs : Len(findOrAddLayout(layouts', d, 1).layouts) = 1

\* C13: unload shuts down every non-null pipeline of the slot array once, then
\* every layout once, all pipelines before all layouts, and leaves both
\* collections empty: valid() is false for every identifier afterwards and the
\* next add finds an empty layout store.
C13_Unload == [][C13_UnloadStep]_vars

\* an unload has destroyed two pipelines while a third, taken out of its slot
\* before, is left alive
C13_Witness ==
  /\ pipelines = <<>>
  /\ layouts = <<>>
  /\ Cardinality({p \in PipeIds : pipes[p].life = "dead"}) = 2
  /\ \E p \in delayedCleanup : pipes[p].life = "live" /\ pipes[p].layout = DanglingLayout

\* ------------------------------------------------------------ add
\* what an add at index that goes through leaves of the slot array and the
\* layouts, for layout description d
C14_AddFrame(i, d) ==
  /\ Len(pipelines') = IF Len(pipelines) > i + 1 THEN Len(pipelines) ELSE i + 1
  /\ \A j \in 1..Len(pipelines') :
       j # i + 1 => pipelines'[j] = IF j <= Len(pipelines) THEN pipelines[j] ELSE 0
  /\ pipelines'[i + 1] = nextPipe
  /\ pipes[nextPipe].life = "none"
  /\ pipes'[nextPipe].life = "live"
  /\ pipes'[nextPipe].layout = findOrAddLayout(layouts, d, Len(layouts) + 1).layout
  /\ matches(layouts'[pipes'[nextPipe].layout], d)

\* C14: an add on an empty or not yet existing slot leaves the array
\* with length max(old length, index + 1), new slots other than index null, old
\* slots unchanged and the new pipeline with its layout at index; an add on an
\* occupied slot trips the assertion and does not replace the occupant.
C14_AddSlot ==
  [][\A i \in Indexes, d \in LayoutDescs, a \in BOOLEAN, res \in CompileResults,
        ab \in BOOLEAN :
       Add(i, d, a, res, ab) =>
         IF AddSlotEmpty(i) THEN ~fatal' => C14_AddFrame(i, d)
         ELSE fatal']_vars

\* ------------------------------------------------------------ valid and get
\* valid() has an answer for every identifier, and the answer is: of this kind,
\* inside the array, slot not null
C15_ValidAnswer ==
  \A id \in ProgramIds :
    /\ valid(id) \in BOOLEAN
    /\ valid(id) <=>
         /\ id.ns = "compute"
         /\ id.idx \in 0..(Len(pipelines) - 1)
         /\ pipelines[id.idx + 1] \in PipeIds
    /\ valid(id) => get(id) \in ComputePipes

\* a slot that is valid after a step holds what it held before, or the
\* pipeline constructed in this step
C15_GetStep ==
  \A id \in ProgramIds :
    valid(id)' =>
      \/ valid(id) /\ get(id)' = get(id)
      \/ /\ get(id)' = nextPipe
         /\ nextPipe' = nextPipe + 1
         /\ pipes[nextPipe].life = "none"

\* C15: valid(program) is true exactly for an identifier of this kind whose
\* index lies inside the slot array and whose slot is not null, it has an answer
\* for every identifier, and while it is true get(program) is the pipeline most
\* recently added at that slot.
C15_ValidGet == []C15_ValidAnswer /\ [][C15_GetStep]_vars

\* slot 0 holds the second pipeline added there, the first one and the former
\* occupant of slot 1 have been taken out: valid() is true for slot 0 alone
C15_Witness ==
  /\ Len(pipelines) = 2
  /\ pipelines[2] = 0
  /\ valid(makeID(0))
  /\ ~valid(makeID(1))
  /\ ~valid(makeID(MaxIndex + 1))
  /\ ~valid([ns |-> "graphics", idx |-> 0])
  /\ Cardinality(delayedCleanup) = 2
  /\ \E p \in delayedCleanup : p < get(makeID(0))

\* ------------------------------------------------------------ PipelineManager::visit
\* the kinds PipelineManager keeps a storage for, in the order visit() asks
\* them (a build without ray tracing)
StorageKinds == <<"graphics", "compute">>

\* Type::ProgramType::checkID(program) for the storage of a kind
checkIDOf(kind, program) == program.ns = kind

\* PipelineManagerStorage::valid of the storage holding the slot array ps
storageValid(kind, ps, program) ==
  LET index == getIndexFromID(program)
  IN /\ checkIDOf(kind, program)
     /\ index >= 0
     /\ index < Len(ps)
     /\ ps[index + 1] # 0

\* a visit() that calls func without asking valid() first
visit_NoValidCheck(storages, program) ==
  LET owners == {k \in 1..Len(StorageKinds) : checkIDOf(StorageKinds[k], program)}
  IN IF owners = {}
       THEN [ret |-> FALSE, invoked |-> <<>>]
       ELSE LET kind == StorageKinds[CHOOSE k \in owners : \A j \in owners : k <= j]
                index == getIndexFromID(program)
            IN [ret |-> TRUE,
                invoked |-> <<[kind |-> kind,
                               obj |-> IF index + 1 \in DOMAIN storages[kind]
                                         THEN storages[kind][index + 1] ELSE 0]>>]

\* PipelineManager::visit: the first kind whose checkID accepts the identifier
\* decides; invoked lists the calls of func, with the storage and the pipeline
\* handed to it
visit(storages, program) ==
  LET owners == {k \in 1..Len(StorageKinds) : checkIDOf(StorageKinds[k], program)}
  IN IF owners = {}
       THEN [ret |-> FALSE, invoked |-> <<>>]
       ELSE LET kind == StorageKinds[CHOOSE k \in owners : \A j \in owners : k <= j]
            IN IF ~storageValid(kind, storages[kind], program)
                 THEN [ret |-> FALSE, invoked |-> <<>>]
                 ELSE [ret |-> TRUE,
                       invoked |-> <<[kind |-> kind,
                                      obj |-> storages[kind][getIndexFromID(program) + 1]]>>]

\* slot arrays the storage of variated graphics pipelines can be in; its
\* pipelines are told from the compute ones by their numbers
GraphicsSlotValues == {0, MaxPipes + 1, MaxPipes + 2}

GraphicsSlotArrays ==
  {ps \in UNION {[1..n -> GraphicsSlotValues] : n \in 0..(MaxIndex + 1)} :
     \A i, j \in 1..Len(ps) : ps[i] # 0 /\ ps[i] = ps[j] => i = j}

\* PipelineManager::visit(program, func) called on the manager whose compute
\* storage is the one at hand and whose graphics storage holds gs
Visit(gs, program) ==
  /\ ~fatal /\ owner.pc = "idle"
  /\ LET storages == [graphics |-> gs, compute |-> pipelines]
         r == visit(storages, program)
     IN call' = [op |-> "visit", storages |-> storages, program |-> program,
                 ret |-> r.ret, invoked |-> r.invoked]
  /\ UNCHANGED <<layouts, pipelines, pipes, nextPipe, delayedCleanup, compileQueue,
                 compiling, owner, fatal, asyncCompileAllowed, compileRefs>>

\* one call of visit() is followed through a run
VisitStep ==
  /\ call = NoCall
  /\ \E gs \in GraphicsSlotArrays, program \in ProgramIds : Visit(gs, program)

\* the manager with its compute storage filled and emptied, and visit() called
NextVisit ==
  \/ AddStep(MaxCompiles, {1}, {FALSE})
  \/ TakeOutStep
  \/ VisitStep

SpecVisit == Init /\ [][NextVisit]_vars

\* C16: visit returns false without calling func for an identifier of no kind
\* and for one whose slot in the storage of its kind is out of range or empty;
\* otherwise it calls func once, on the pipeline in that slot of that storage,
\* and returns true.
C16_Visit ==
  call.op = "visit" =>
    LET id == call.program
        known == id.ns \in {"graphics", "compute"}
        slots == IF known THEN call.storages[id.ns] ELSE <<>>
        stored == known /\ id.idx \in 0..(Len(slots) - 1) /\ slots[id.idx + 1] # 0
    IN IF stored
         THEN /\ call.ret = TRUE
              /\ call.invoked = <<[kind |-> id.ns, obj |-> slots[id.idx + 1]]>>
         ELSE /\ call.ret = FALSE
              /\ call.invoked = <<>>

\* visit has handed the compute pipeline of slot 1 to func although the
\* graphics storage holds a pipeline at the same index
C16_Witness ==
  /\ call.op = "visit"
  /\ call.program = makeID(1)
  /\ call.ret
  /\ Len(call.invoked) = 1
  /\ call.invoked[1] = [kind |-> "compute", obj |-> pipelines[2]]
  /\ Len(call.storages.graphics) = 2
  /\ call.storages.graphics[2] # 0
  /\ pipelines[1] = 0

\* ------------------------------------------------------------ failed compute compile
\* a compute pipeline past the native call holds the handle of a successful
\* creation, and so does one whose handle is published
C17_Compiled ==
  \A p \in ComputePipes :
    /\ pipes[p].phase = "created" => pipes[p].ret = NativeHandle(p)
    /\ pipes[p].phase \in {"published", "done"} => getHandle(p) = NativeHandle(p)
    /\ getHandle(p) \in {0, NativeHandle(p)}

\* a creation that does not yield a handle, error or not, ends in the fatal exit
C17_FailedCreation ==
  \A res \in CompileResults \ {"ok"} :
    /\ \A i \in Indexes, d \in LayoutDescs, ab \in BOOLEAN :
         Add(i, d, FALSE, res, ab) => fatal'
    /\ (compileQueue # <<>> /\ Head(compileQueue) \in ComputePipes /\ WorkerCompile(res))
         => fatal'

\* C17: ComputePipeline::compile takes the fatal exit when the native call
\* fails and when it reports success with a null handle; a compute pipeline
\* never has a null handle published and never reaches Compiled without one.
C17_ComputeNullHandleFatal == []C17_Compiled /\ [][C17_FailedCreation]_vars

\* a worker is about to compile a queued compute pipeline, and a native call
\* that reports success with a null handle would end the process; another
\* pipeline has been compiled to its handle
C17_Witness ==
  /\ compileQueue # <<>>
  /\ Head(compileQueue) \in ComputePipes
  /\ ENABLED (WorkerCompile("ok_null") /\ fatal')
  /\ ~ENABLED (WorkerCompile("ok_null") /\ ~fatal')
  /\ \E p \in ComputePipes : pipes[p].phase = "done" /\ getHandle(p) = NativeHandle(p)

\* ------------------------------------------------------------ failed graphics compile
\* C18: GraphicsPipeline::compile takes the fatal exit when the native call
\* reports success with a null handle: a graphics pipeline never has its handle
\* published and its scratch released with a null handle.
C18_GraphicsNullHandleFatal ==
  \A p \in GraphicsPipes :
    pipes[p].phase \in {"published", "done"} => getHandle(p) # 0

\* ------------------------------------------------------------ graphics create-info
\* RenderPassClass::Identifier depth states
DepthStates == {"NO_DEPTH", "RO_DEPTH", "RW_DEPTH"}

\* what the constructor's depth handling reads of its CreationInfo: the native
\* render pass (none, or one with / without depth at the subpass), the depth
\* state of the legacy pass class, the static render state, and the target
DepthInfos ==
  [nativeRP : {"none", "depth", "nodepth"},
   depthState : DepthStates,
   depthTestEnable : BOOLEAN, depthWriteEnable : BOOLEAN,
   depthBoundsEnable : BOOLEAN, stencilTestEnable : BOOLEAN,
   depthClipEnable : BOOLEAN,
   android : BOOLEAN]

\* GraphicsPipeline::GraphicsPipeline, "deal with render pass dependencies":
\* hasDepth and forceNoZWrite
resolveDepth(info) ==
  IF info.nativeRP # "none"
    THEN [hasDepth |-> info.nativeRP = "depth", forceNoZWrite |-> FALSE]
    ELSE [hasDepth |-> info.depthState # "NO_DEPTH",
          forceNoZWrite |-> info.depthState = "RO_DEPTH"]

\* the raster and depth/stencil enables as first written from the static state
requestedDepthState(info, forceNoZWrite) ==
  [depthClampEnable |-> IF info.android THEN FALSE ELSE ~info.depthClipEnable,
   depthBiasEnable |-> TRUE,
   depthTestEnable |-> info.depthTestEnable,
   depthWriteEnable |-> info.depthWriteEnable /\ ~forceNoZWrite,
   depthBoundsTestEnable |-> info.depthBoundsEnable,
   stencilTestEnable |-> info.stencilTestEnable]

\* an override that leaves the raster state as the static state asked for it
noDepthOverride_DepthStencilOnly(ds, hasDepth) ==
  IF ~hasDepth
    THEN [ds EXCEPT !.depthTestEnable = FALSE, !.depthWriteEnable = FALSE,
                    !.depthBoundsTestEnable = FALSE, !.stencilTestEnable = FALSE]
    ELSE ds

\* if (!hasDepth) { ... }: everything depth related off
noDepthOverride(ds, hasDepth) ==
  IF ~hasDepth
    THEN [ds EXCEPT !.depthTestEnable = FALSE, !.depthWriteEnable = FALSE,
                    !.depthBoundsTestEnable = FALSE, !.stencilTestEnable = FALSE,
                    !.depthBiasEnable = FALSE, !.depthClampEnable = FALSE]
    ELSE ds

\* the depth related enables of the create-info the constructor leaves
ctorDepthState(info) ==
  LET rd == resolveDepth(info)
  IN noDepthOverride(requestedDepthState(info, rd.forceNoZWrite), rd.hasDepth)

\* GraphicsPipeline::GraphicsPipeline, depth/stencil and raster part, run on
\* one CreationInfo
CtorDepthState(info) ==
  /\ ~fatal /\ call = NoCall
  /\ call' = [op |-> "ctor_depth", info |-> info, out |-> ctorDepthState(info)]
  /\ UNCHANGED <<layouts, pipelines, pipes, nextPipe, delayedCleanup, compileQueue,
                 compiling, owner, fatal, asyncCompileAllowed, compileRefs>>

CtorDepthStateStep ==
  /\ call = NoCall
  /\ \E info \in DepthInfos : CtorDepthState(info)

\* the render-pass configuration the constructor resolves has no depth attachment
C19_NoDepth(info) ==
  \/ info.nativeRP = "nodepth"
  \/ info.nativeRP = "none" /\ info.depthState = "NO_DEPTH"

\* C19: for a render-pass configuration without depth attachment the
\* constructor leaves depth test, depth write, depth bounds test, stencil test,
\* depth bias and depth clamp all disabled, whatever the static state asks for.
C19_NoDepthDisablesAll ==
  call.op = "ctor_depth" /\ C19_NoDepth(call.info) =>
    /\ ~call.out.depthTestEnable
    /\ ~call.out.depthWriteEnable
    /\ ~call.out.depthBoundsTestEnable
    /\ ~call.out.stencilTestEnable
    /\ ~call.out.depthBiasEnable
    /\ ~call.out.depthClampEnable

\* a legacy pass class with NO_DEPTH under a static state that asks for every
\* depth feature, and depth clamp by switching depth clip off
C19_Witness ==
  /\ call.op = "ctor_depth"
  /\ call.info.nativeRP = "none" /\ call.info.depthState = "NO_DEPTH"
  /\ call.info.depthTestEnable /\ call.info.depthWriteEnable
  /\ call.info.depthBoundsEnable /\ call.info.stencilTestEnable
  /\ ~call.info.depthClipEnable /\ ~call.info.android
  /\ requestedDepthState(call.info, FALSE).depthClampEnable
  /\ ~call.out.depthTestEnable /\ ~call.out.depthClampEnable /\ ~call.out.depthBiasEnable

\* ------------------------------------------------------------ colour blend attachments
\* Driver3dRenderTarget::MAX_SIMRT, the number of colour target slots
MAX_SIMRT == 3

Slots == 0..(MAX_SIMRT - 1)

\* bit masks over the colour target slots
SlotMasks == 0..(2 ^ MAX_SIMRT - 1)

\* sample counts of a colour target of the pass class
SampleCounts == {1, 4}

\* four-bit colour masks of the static state, one per slot (non-zero, so that a
\* zero write mask is always one the loop forced)
ColorNibbles == {5, 15}

\* what the attachment loop reads of its CreationInfo: the native render pass
\* (present or not), the colour-target mask the pass resolves to, the colour
\* sample counts of the pass class, the fragment shader's output mask and the
\* static state's colour mask (four bits per slot)
BlendInfos ==
  [nativeRP : BOOLEAN,
   rpColorTargetMask : SlotMasks,
   colorSamples : [0..(MAX_SIMRT - 2) -> SampleCounts],
   outputMask : SlotMasks,
   colorMask : [Slots -> ColorNibbles]]

\* a resolve test that does not look whether the render pass is native
isResolveAttachment_IgnoreNative(i, info) ==
  i > 0 /\ info.colorSamples[i - 1] > 1

\* bool isResolveAttachment = (i > 0) && colorSamples[i - 1] > 1 && !info.nativeRP
isResolveAttachment(i, info) ==
  i > 0 /\ info.colorSamples[i - 1] > 1 /\ ~info.nativeRP

\* staticState.colorMask >> (attachmentCount * 4) & VK_COLOR_COMPONENT_RGBA_BIT
colorMaskAt(info, attachmentCount) == info.colorMask[attachmentCount]

\* an attachment state whose write mask follows the render pass alone
attachmentState_IgnoreShaderMask(i, rpMask, swMask, info, attachmentCount) ==
  [slot |-> i,
   colorWriteMask |-> IF rpMask % 2 = 1 THEN colorMaskAt(info, attachmentCount) ELSE 0]

\* the attachment state written at attachmentStates[attachmentCount] in
\* iteration i (blend factors and ops are copied from the static state and
\* are not modelled)
attachmentState(i, rpMask, swMask, info, attachmentCount) ==
  [slot |-> i,
   colorWriteMask |-> IF swMask % 2 = 1 /\ rpMask % 2 = 1
                        THEN colorMaskAt(info, attachmentCount)
                        ELSE 0]

\* a loop that emits an attachment only for the set bits of the mask
RECURSIVE attachmentLoop_SetBitsOnly(_, _, _, _, _)
attachmentLoop_SetBitsOnly(i, rpMask, swMask, info, states) ==
  IF ~(i < MAX_SIMRT /\ rpMask # 0)
    THEN states
    ELSE IF isResolveAttachment(i, info) \/ rpMask % 2 = 0
      THEN attachmentLoop_SetBitsOnly(i + 1, rpMask \div 2, swMask, info, states)
      ELSE attachmentLoop_SetBitsOnly(i + 1, rpMask \div 2, swMask \div 2, info,
             Append(states, attachmentState(i, rpMask, swMask, info, Len(states))))

\* for (i = 0; i < MAX_SIMRT && rpMask; ++i, rpMask >>= 1) { ... }: states is
\* attachmentStates[0 .. attachmentCount), so attachmentCount is Len(states);
\* a resolve attachment continues without ++attachmentCount and swMask >>= 1
RECURSIVE attachmentLoop(_, _, _, _, _)
attachmentLoop(i, rpMask, swMask, info, states) ==
  IF ~(i < MAX_SIMRT /\ rpMask # 0)
    THEN states
    ELSE IF isResolveAttachment(i, info)
      THEN attachmentLoop(i + 1, rpMask \div 2, swMask, info, states)
      ELSE attachmentLoop(i + 1, rpMask \div 2, swMask \div 2, info,
             Append(states, attachmentState(i, rpMask, swMask, info, Len(states))))

\* the colour blend state the constructor leaves: uint8_t swMask and rpMask,
\* the loop under if (rpColorTargetMask), then colorBlendState.attachmentCount
ctorColorBlend(info) ==
  LET states == IF info.rpColorTargetMask # 0
                  THEN attachmentLoop(0, info.rpColorTargetMask % 256,
                                      info.outputMask % 256, info, <<>>)
                  ELSE <<>>
  IN [attachmentStates |-> states, attachmentCount |-> Len(states)]

\* GraphicsPipeline::GraphicsPipeline, colour blend part, run on one CreationInfo
CtorColorBlend(info) ==
  /\ ~fatal /\ call = NoCall
  /\ call' = [op |-> "ctor_blend", info |-> info, out |-> ctorColorBlend(info)]
  /\ UNCHANGED <<layouts, pipelines, pipes, nextPipe, delayedCleanup, compileQueue,
                 compiling, owner, fatal, asyncCompileAllowed, compileRefs>>

CtorColorBlendStep ==
  /\ call = NoCall
  /\ \E info \in BlendInfos : CtorColorBlend(info)

\* bit i of a mask
BitSet(mask, i) == (mask \div (2 ^ i)) % 2 = 1

\* index of the highest set bit of a mask plus one, zero for the empty mask
HighestBitPlusOne(mask) ==
  IF mask = 0 THEN 0 ELSE 1 + CHOOSE i \in Slots : BitSet(mask, i) /\ \A j \in Slots : j > i => ~BitSet(mask, j)

\* number of set bits of a mask
PopCount(mask) == Cardinality({i \in Slots : BitSet(mask, i)})

\* the slots up to the highest set bit that the loop passes over as
\* multisample resolve attachments of a legacy pass
C20_ResolveSlots(info) ==
  {i \in Slots : /\ i < HighestBitPlusOne(info.rpColorTargetMask)
                 /\ i > 0 /\ ~info.nativeRP /\ info.colorSamples[i - 1] > 1}

\* C20 as stated: for every colour-target mask the attachment count is the
\* index of the highest set bit plus one, and every slot up to it has an entry.
C20_AsWritten ==
  call.op = "ctor_blend" =>
    /\ call.out.attachmentCount = HighestBitPlusOne(call.info.rpColorTargetMask)
    /\ \A i \in Slots : i < HighestBitPlusOne(call.info.rpColorTargetMask) =>
         \E k \in 1..call.out.attachmentCount : call.out.attachmentStates[k].slot = i

\* C20: the attachment count is the index of the highest set bit of the
\* colour-target mask plus one (zero for an empty mask) less the slots under it
\* that a legacy pass skips as resolve attachments; every other slot up to the
\* highest set bit has exactly one entry, whether its mask bit is set or
\* clear, in ascending slot order, so with a native pass or single-sampled
\* targets the count is the highest set bit plus one and not the bit count.
C20_AttachmentCount ==
  call.op = "ctor_blend" =>
    LET info == call.info
        out == call.out
        top == HighestBitPlusOne(info.rpColorTargetMask)
    IN /\ out.attachmentCount = top - Cardinality(C20_ResolveSlots(info))
       /\ out.attachmentCount = Len(out.attachmentStates)
       /\ \A i \in Slots : i < top /\ i \notin C20_ResolveSlots(info) =>
            \E k \in 1..out.attachmentCount : out.attachmentStates[k].slot = i
       /\ \A k \in 1..out.attachmentCount :
            /\ out.attachmentStates[k].slot < top
            /\ out.attachmentStates[k].slot \notin C20_ResolveSlots(info)
            /\ \A m \in 1..out.attachmentCount :
                 k < m => out.attachmentStates[k].slot < out.attachmentStates[m].slot
       /\ C20_ResolveSlots(info) = {} => out.attachmentCount = top

\* mask 0b101 with nothing skipped: three entries for two set bits, the middle
\* one for the clear bit
C20_Witness ==
  /\ call.op = "ctor_blend"
  /\ call.info.rpColorTargetMask = 5
  /\ C20_ResolveSlots(call.info) = {}
  /\ PopCount(call.info.rpColorTargetMask) = 2
  /\ call.out.attachmentCount = 3
  /\ call.out.attachmentStates[2].slot = 1
  /\ call.out.attachmentStates[2].colorWriteMask = 0

\* ------------------------------------------------------------ multisample state
\* forced sample counts go up to 2 ^ MaxForcedExp
MaxForcedExp == 2

\* staticState.getForcedSamplerCount(): zero for none, else a sample count
ForcedCounts == {0} \cup {2 ^ k : k \in 0..MaxForcedExp}

\* limits.framebufferNoAttachmentsSampleCounts, a mask of VK_SAMPLE_COUNT_n_BIT
SampleCaps == 0..(2 ^ (MaxForcedExp + 1) - 1)

\* sample counts a render pass resolves to
PassSampleCounts == {1, 4}

\* a & b
RECURSIVE BitAnd(_, _)
BitAnd(a, b) ==
  IF a = 0 \/ b = 0 THEN 0
  ELSE (a % 2) * (b % 2) + 2 * BitAnd(a \div 2, b \div 2)

\* the switch of checkSampleCount: VK_SAMPLE_COUNT_n_BIT has the value n
sampleCountFlag(count) ==
  CASE count = 2 -> 2
    [] count = 4 -> 4
    [] count = 8 -> 8
    [] count = 16 -> 16
    [] count = 32 -> 32
    [] count = 64 -> 64
    [] OTHER -> count

\* a checkSampleCount that looks at the device capability only
checkSampleCount_NoAttachmentCheck(count, colorMask, hasDepth, caps, assertsAbort) ==
  IF count <= 1
    THEN [ret |-> 1, asserted |-> {}, aborted |-> FALSE]
    ELSE LET ret == sampleCountFlag(count)
             unsupported == BitAnd(caps, ret) = 0
         IN [ret |-> IF unsupported /\ assertsAbort THEN 0 ELSE ret,
             asserted |-> IF unsupported THEN {"caps"} ELSE {},
             aborted |-> unsupported /\ assertsAbort]

\* checkSampleCount: the flag returned, the G_ASSERTFs whose condition was
\* false, and whether one of them ended the process
checkSampleCount(count, colorMask, hasDepth, caps, assertsAbort) ==
  IF count <= 1
    THEN [ret |-> 1, asserted |-> {}, aborted |-> FALSE]
    ELSE LET ret == sampleCountFlag(count)
             unsupported == BitAnd(caps, ret) = 0
             attached == ~(~hasDepth /\ colorMask = 0)
         IN IF unsupported /\ assertsAbort
              THEN [ret |-> 0, asserted |-> {"caps"}, aborted |-> TRUE]
              ELSE [ret |-> IF attached /\ assertsAbort THEN 0 ELSE ret,
                    asserted |-> (IF unsupported THEN {"caps"} ELSE {}) \cup
                                 (IF attached THEN {"attachments"} ELSE {}),
                    aborted |-> attached /\ assertsAbort]

\* what the multisample state reads: the static state's forced count and alpha
\* to coverage, the sample count, colour-target mask and depth presence the
\* render pass resolved to, the device capability, and whether assertions end
\* the process in this build
MultisampleInfos ==
  [forcedSamplerCount : ForcedCounts,
   sampleCount : PassSampleCounts,
   rpColorTargetMask : SlotMasks,
   hasDepth : BOOLEAN,
   caps : SampleCaps,
   alphaToCoverage : BOOLEAN,
   assertsAbort : BOOLEAN]

\* rasterizationSamples = forcedSamplerCount == 0 ? sampleCount : checkSampleCount(...)
\* and the alpha-to-coverage assertion after it
ctorMultisample(info) ==
  LET r == IF info.forcedSamplerCount = 0
             THEN [ret |-> info.sampleCount, asserted |-> {}, aborted |-> FALSE]
             ELSE checkSampleCount(info.forcedSamplerCount, info.rpColorTargetMask % 256,
                                   info.hasDepth, info.caps, info.assertsAbort)
      a2c == ~r.aborted /\ info.alphaToCoverage /\ BitAnd(r.ret, 1) # 0
  IN [rasterizationSamples |-> IF a2c /\ info.assertsAbort THEN 0 ELSE r.ret,
      asserted |-> r.asserted \cup (IF a2c THEN {"alphaToCoverage"} ELSE {}),
      aborted |-> r.aborted \/ (a2c /\ info.assertsAbort)]

\* GraphicsPipeline::GraphicsPipeline, multisample part, run on one CreationInfo
CtorMultisample(info) ==
  /\ ~fatal /\ call = NoCall
  /\ call' = [op |-> "ctor_multisample", info |-> info, out |-> ctorMultisample(info)]
  /\ fatal' = ctorMultisample(info).aborted
  /\ UNCHANGED <<layouts, pipelines, pipes, nextPipe, delayedCleanup, compileQueue,
                 compiling, owner, asyncCompileAllowed, compileRefs>>

CtorMultisampleStep ==
  /\ call = NoCall
  /\ \E info \in MultisampleInfos : CtorMultisample(info)

\* C21: whenever the forced sample count is not in the device's
\* framebufferNoAttachmentsSampleCounts, construction takes the assertion path
\* of that capability check, and a pipeline that is built all the same has
\* neither the render target's sample count nor another substituted count.
C21_UnsupportedForcedCountAsserts ==
  call.op = "ctor_multisample" /\ call.info.forcedSamplerCount # 0
    /\ BitAnd(call.info.caps, call.info.forcedSamplerCount) = 0 =>
      /\ "caps" \in call.out.asserted
      /\ ~call.out.aborted =>
           call.out.rasterizationSamples = call.info.forcedSamplerCount

\* ------------------------------------------------------------ layout store
\* the deferred destruction of a taken-out pipeline
CleanupStep ==
  \/ \E p \in PipeIds : Cleanup(p)
  \/ CleanupFinish

\* the storage filled over every layout description, emptied slot by slot with
\* deferred destruction, and unloaded
NextLayouts ==
  \/ AddStep(MaxPipes, LayoutDescs, {FALSE})
  \/ TakeOutStep
  \/ Unload
  \/ CleanupStep

SpecLayouts == Init /\ [][NextLayouts]_vars

\* the pipelines that hold a layout pointer handed out since the last unload
LayoutHolders ==
  {p \in PipeIds : pipes[p].life = "live" /\ pipes[p].layout \notin {0, DanglingLayout}}

\* every layout pointer handed out since the last unload is in the store
C22_PointersInStore ==
  \A p \in LayoutHolders : \E i \in 1..Len(layouts) : layouts[i].id = pipes[p].layout

\* what a step that is not an unload does to the store
C22_Step ==
  \/ Unload
  \/ fatal'
  \/ /\ Len(layouts') \in {Len(layouts), Len(layouts) + 1}
     /\ \A i \in 1..Len(layouts) : layouts'[i] = layouts[i]
     /\ \A index \in Indexes, d \in LayoutDescs, a \in BOOLEAN, res \in CompileResults,
           ab \in BOOLEAN :
          Add(index, d, a, res, ab) =>
            IF FirstMatch(layouts, d) # 0
              THEN /\ layouts' = layouts
                   /\ pipes'[nextPipe].layout = layouts[FirstMatch(layouts, d)].id
              ELSE /\ Len(layouts') = Len(layouts) + 1
                   /\ matches(layouts'[Len(layouts')], d)
                   /\ pipes'[nextPipe].layout = layouts'[Len(layouts')].id
     /\ (\/ \E index \in Indexes, ab \in BOOLEAN : TakeOut(index, ab)
         \/ CleanupStep) => layouts' = layouts
     /\ \A p \in LayoutHolders :
          pipes'[p].life = "live" => pipes'[p].layout = pipes[p].layout

\* C22: between unloads the layout store only grows by appending:
\* findOrAddLayout hands out the first matching layout and leaves the sequence
\* alone, or appends one layout at the end; takeOut and the destruction of
\* a single pipeline leave every layout in place, so a layout pointer handed to
\* a pipeline is in the store until unload.
C22_LayoutsAppendOnly == []C22_PointersInStore /\ [][C22_Step]_vars

\* a taken-out pipeline is about to be destroyed while the store holds two
\* layouts, its own among them
C22_Witness ==
  /\ owner.pc = "cleanup_shutdown"
  /\ Len(layouts) = 2
  /\ pipes[owner.p].layout = layouts[1].id
  /\ \E q \in LayoutHolders : q # owner.p /\ pipes[q].layout = layouts[2].id

\* ------------------------------------------------------------ asynchronous compile toggle
\* a setter that can switch asynchronous compilation on but never off again
setAsyncCompile_Sticky(allowed) == asyncCompileAllowed \/ allowed

\* PipelineManager::setAsyncCompile: the value asyncCompileAllowed is given
setAsyncCompile(allowed) == allowed

\* PipelineManager::asyncCompileEnabled
asyncCompileEnabled == asyncCompileAllowed

\* a call of PipelineManager::setAsyncCompile
SetAsyncCompile(allowed) ==
  /\ ~fatal /\ owner.pc = "idle"
  /\ asyncCompileAllowed' = setAsyncCompile(allowed)
  /\ call' = [op |-> "setAsyncCompile", allowed |-> allowed]
  /\ UNCHANGED <<layouts, pipelines, pipes, nextPipe, delayedCleanup, compileQueue,
                 compiling, owner, fatal, compileRefs>>

SetAsyncCompileStep == \E allowed \in BOOLEAN : SetAsyncCompile(allowed)

\* PipelineManager::addCompute: the storage's add with the manager's toggle as
\* the creation info's allowAsyncCompile
AddCompute(index, layoutInfo, res, assertsAbort) ==
  Add(index, layoutInfo, asyncCompileEnabled, res, assertsAbort)

AddComputeStep ==
  \E index \in Indexes, res \in CompileResults, ab \in BOOLEAN :
    nextPipe <= MaxCompiles /\ AddCompute(index, 1, res, ab)

\* the manager adding compute pipelines while the toggle is switched, with the
\* compile workers
NextAsync ==
  \/ AddComputeStep
  \/ SetAsyncCompileStep
  \/ WorkerStep

SpecAsync == Init /\ [][NextAsync]_vars

\* asyncCompileEnabled() answers with the argument of the last setAsyncCompile
C23_LastSet ==
  /\ call = NoCall => ~asyncCompileEnabled
  /\ call.op = "setAsyncCompile" => asyncCompileEnabled = call.allowed

\* what a step does to the toggle and to the compile mode of the pipelines
C23_Step ==
  /\ \A allowed \in BOOLEAN : SetAsyncCompile(allowed) => pipes' = pipes
  /\ ~(\E allowed \in BOOLEAN : SetAsyncCompile(allowed)) /\ ~fatal' =>
       asyncCompileEnabled' = asyncCompileEnabled
  /\ \A index \in Indexes, res \in CompileResults, ab \in BOOLEAN :
       AddCompute(index, 1, res, ab) /\ ~fatal' =>
         pipes'[nextPipe].allocated = asyncCompileEnabled
  /\ \A p \in PipeIds :
       pipes[p].life = "live" /\ pipes'[p].life = "live" =>
         pipes'[p].allocated = pipes[p].allocated

\* C23: asyncCompileEnabled() is false before any setAsyncCompile and afterwards
\* the value of the most recent call; a pipeline is constructed in the mode the
\* toggle has at its add, and keeps that mode whatever the toggle is set to later.
C23_AsyncToggle == []C23_LastSet /\ [][C23_Step]_vars

\* the toggle is off again while a pipeline added under it is still queued
\* for asynchronous compilation, next to one compiled synchronously
C23_Witness ==
  /\ call.op = "setAsyncCompile" /\ ~call.allowed /\ ~asyncCompileEnabled
  /\ \E p \in PipeIds : pipes[p].life = "live" /\ pipes[p].allocated
                        /\ pipes[p].phase = "queued"
  /\ \E q \in PipeIds : pipes[q].life = "live" /\ ~pipes[q].allocated
                        /\ pipes[q].phase = "done"

\* ------------------------------------------------------------ render pass compile references
\* graphics pipelines built on native render passes and on legacy pass
\* classes, compiled inline or by the workers
NextRefs ==
  \/ GraphicsBuildStep({0} \cup NativePasses)
  \/ WorkerStep

SpecRefs == Init /\ [][NextRefs]_vars

\* the pipelines on native pass r whose compile() has not yet got past the
\* native creation call
C24_NotCompiled(r) ==
  {p \in PipeIds : /\ pipes[p].kind = "graphics" /\ pipes[p].life = "live"
                   /\ pipes[p].nativeRP = r
                   /\ pipes[p].phase \in {"constructed", "queued", "created"}}

\* the outstanding references of every native pass are its pipelines not yet compiled
C24_RefsCount ==
  \A r \in NativePasses : compileRefs[r] = Cardinality(C24_NotCompiled(r))

\* the pipelines on native pass r that a step constructs, and those whose
\* compile() a step takes from the returned creation call to the stored handle
C24_Constructed(r) ==
  {p \in PipeIds : pipes[p].phase = "none" /\ pipes'[p].phase = "constructed"
                   /\ pipes'[p].kind = "graphics" /\ pipes'[p].nativeRP = r}

C24_Finished(r) ==
  {p \in PipeIds : pipes[p].phase = "created" /\ pipes'[p].phase \in {"published", "done"}
                   /\ pipes[p].kind = "graphics" /\ pipes[p].nativeRP = r}

\* the constructor takes one reference, on its own pass and only on a native
\* one; compile() gives one back, after the creation call has returned; nothing
\* else moves a reference count (the fatal exit ends the process)
C24_Step ==
  \/ fatal'
  \/ \A r \in NativePasses :
       compileRefs'[r] = compileRefs[r] + Cardinality(C24_Constructed(r))
                                        - Cardinality(C24_Finished(r))

\* C24: a graphics pipeline on a native render pass takes one compile
\* reference on that pass in its constructor and compile() releases one after
\* the native creation call has returned, so a pass's outstanding references
\* are its pipelines constructed and not yet compiled, and none are left once
\* all are compiled; pipelines on a legacy pass class take and release none.
C24_CompileRefs == []C24_RefsCount /\ [][C24_Step]_vars

\* a pass whose references are back at zero after two of its pipelines were
\* compiled, one by a worker, while a pipeline of another pass still holds one
C24_Witness ==
  /\ \E r \in NativePasses :
       /\ compileRefs[r] = 0
       /\ \E p \in PipeIds, q \in PipeIds :
            /\ p # q /\ pipes[p].phase = "done" /\ pipes[q].phase = "done"
            /\ pipes[p].allocated /\ ~pipes[q].allocated
            /\ pipes[p].handle # 0 /\ pipes[q].handle # 0
  /\ \E r \in NativePasses : compileRefs[r] = 1 /\ C24_NotCompiled(r) # {}

\* ------------------------------------------------------------ parent and child compile
\* graphics pipelines that name a parent
C25_Children ==
  {c \in PipeIds : pipes[c].kind = "graphics" /\ pipes[c].life = "live" /\ pipes[c].parent # 0}

\* every step of the compile of a graphics pipeline, inline or on a worker, can
\* be taken whatever state its parent is in (the scratch, and with it the
\* parent pointer, is gone once the handle is stored)
C25_NeverBlocked ==
  \A c \in GraphicsPipes :
    /\ owner.pc = "graphics_constructed" /\ owner.p = c /\ ~pipes[c].allocated =>
         ENABLED GraphicsCompileInline("ok")
    /\ owner.pc = "graphics_compiling" /\ owner.p = c => ENABLED GraphicsCompileFinish
    /\ compileQueue # <<>> /\ Head(compileQueue) = c /\ Cardinality(compiling) < NumWorkers =>
         ENABLED WorkerCompile("ok")
    /\ c \in compiling /\ pipes[c].phase = "created" => ENABLED WorkerPublish(c)
    /\ c \in compiling /\ pipes[c].phase = "published" => ENABLED WorkerClear(c)

\* a child created while its parent has no compiled handle is created as a
\* pipeline of its own: no derivative flag, no base handle
C25_SkipsDerivative ==
  \A c \in C25_Children :
    pipes[c].phase = "created" /\ ~checkCompiled(pipes[c].parent) =>
      /\ ~pipes[c].deriv
      /\ pipes[c].baseHandle = 0
      /\ pipes[c].baseIndex = 0

\* C25: the compile of a child graphics pipeline never waits for its parent:
\* with the parent pending or never compiled every step of the child's compile
\* can be taken and the child is created without the derivative link; the
\* compiles of parent and child happen in either order.
C25_ChildNeverWaits == C25_NeverBlocked /\ C25_SkipsDerivative

\* a worker has created the native pipeline of a child and is about to store
\* its handle while the parent's compile, on another worker, is still pending
C25_Witness ==
  \E c \in C25_Children :
    /\ c \in compiling /\ pipes[c].phase = "created" /\ pipes[c].ret = NativeHandle(c)
    /\ ENABLED WorkerPublish(c)
    /\ pipes[pipes[c].parent].phase = "created"
    /\ ~checkCompiled(pipes[c].parent)

\* ------------------------------------------------------------ colour write masks
\* C26 as stated: the write mask of an emitted entry is the static state's
\* colour mask of the entry's render-pass slot when the shader's output-mask bit
\* and the colour-target-mask bit of that same slot are both set, and zero
\* otherwise.
C26_AsWritten ==
  call.op = "ctor_blend" =>
    \A k \in 1..call.out.attachmentCount :
      LET st == call.out.attachmentStates[k]
      IN st.colorWriteMask =
           IF BitSet(call.info.outputMask, st.slot) /\ BitSet(call.info.rpColorTargetMask, st.slot)
             THEN call.info.colorMask[st.slot]
             ELSE 0

\* C26: the write mask of entry k (counted from 0), emitted for render-pass
\* slot i, is zero unless bit i of the colour-target mask and bit k of the
\* fragment shader's output mask are both set, and is then the four bits of the
\* static state's colour mask at position k; k and i are the same slot as long
\* as no resolve attachment was skipped before it.
C26_ColorWriteMask ==
  call.op = "ctor_blend" =>
    \A k \in 1..call.out.attachmentCount :
      LET st == call.out.attachmentStates[k]
      IN /\ st.colorWriteMask =
              IF BitSet(call.info.outputMask, k - 1) /\ BitSet(call.info.rpColorTargetMask, st.slot)
                THEN call.info.colorMask[k - 1]
                ELSE 0
         /\ st.slot >= k - 1
         /\ st.slot = k - 1 <=> {j \in C20_ResolveSlots(call.info) : j < st.slot} = {}

\* three slots, all three in the render pass, the shader writing only the
\* first and the last: the middle entry is masked off, the others carry
\* different colour masks of their own slots
C26_Witness ==
  /\ call.op = "ctor_blend"
  /\ call.info.rpColorTargetMask = 7 /\ call.info.outputMask = 5
  /\ call.info.colorMask[0] = 15 /\ call.info.colorMask[2] = 5
  /\ call.out.attachmentCount = 3
  /\ call.out.attachmentStates[1].colorWriteMask = 15
  /\ call.out.attachmentStates[2].colorWriteMask = 0
  /\ call.out.attachmentStates[3].colorWriteMask = 5

\* ------------------------------------------------------------ resolve attachments
\* the render-pass slots the loop visits: up to the highest set bit of the mask
C27_Visited(info) == {i \in Slots : i < HighestBitPlusOne(info.rpColorTargetMask)}

\* the slots that have an entry in attachmentStates
C27_Emitted(out) == {out.attachmentStates[k].slot : k \in 1..out.attachmentCount}

\* C27: the attachment loop skips a slot it visits exactly when the render pass
\* is a legacy one, the slot index is above zero and the colour target before
\* it has more than one sample; with a native render pass nothing is skipped
\* and attachment entry k describes render-pass slot k.
C27_ResolveSkip ==
  call.op = "ctor_blend" =>
    LET info == call.info
        out == call.out
    IN /\ \A i \in C27_Visited(info) :
            i \notin C27_Emitted(out) <=>
              (~info.nativeRP /\ i > 0 /\ info.colorSamples[i - 1] > 1)
       /\ info.nativeRP =>
            /\ C27_Emitted(out) = C27_Visited(info)
            /\ \A k \in 1..out.attachmentCount : out.attachmentStates[k].slot = k - 1

\* a legacy pass with a multisampled first target: of the three slots of the
\* mask the one after the multisampled target has no entry
C27_Witness ==
  /\ call.op = "ctor_blend"
  /\ ~call.info.nativeRP
  /\ call.info.rpColorTargetMask = 7
  /\ call.info.colorSamples[0] = 4 /\ call.info.colorSamples[1] = 1
  /\ C27_Emitted(call.out) = {0, 2}
  /\ call.out.attachmentCount = 2

\* ------------------------------------------------------------ dynamic state mask
\* shaders::RenderState::NumIndependentBlendParameters
NumIndependentBlendParameters == 2

\* a blend state as from() reads it: enabled, and whether its source or
\* destination factor lies in VK_BLEND_FACTOR_CONSTANT_COLOR ..
\* VK_BLEND_FACTOR_ONE_MINUS_CONSTANT_ALPHA
BlendStates == [blendEnable : BOOLEAN, constantFactor : BOOLEAN]

\* the bits of a GraphicsPipelineDynamicStateMask
DynStateMasks ==
  [hasDepthBias : {0, 1}, hasDepthBoundsTest : {0, 1}, hasStencilTest : {0, 1},
   hasBlendConstants : {0, 1}]

\* what from() reads of its arguments: the native render pass (none, or one
\* with / without depth at the subpass), the depth state of the variant's pass
\* class, and the static render state
DynMaskInfos ==
  [nativeRP : {"none", "depth", "nodepth"},
   depthState : DepthStates,
   depthBoundsEnable : BOOLEAN,
   stencilTestEnable : BOOLEAN,
   indenpendentBlendEnabled : BOOLEAN,
   blendStates : [0..(NumIndependentBlendParameters - 1) -> BlendStates]]

\* the test of from() for a variant without depth
fromNoDepth(info) ==
  \/ info.depthState = "NO_DEPTH"
  \/ IF info.nativeRP # "none" THEN info.nativeRP = "nodepth" ELSE FALSE

\* the loop of from() over the blend states to check: some enabled state uses
\* a constant blend factor
fromBlendConstants(info) ==
  LET blendStateToCheck == IF info.indenpendentBlendEnabled
                             THEN NumIndependentBlendParameters ELSE 1
  IN \E i \in 0..(blendStateToCheck - 1) :
       info.blendStates[i].blendEnable /\ info.blendStates[i].constantFactor

\* GraphicsPipelineDynamicStateMask::from on a mask with the bits of mask: the
\* branch with depth assigns hasDepthBias and only sets, never clears, the
\* other two depth bits
from(mask, info) ==
  [hasDepthBias |-> IF fromNoDepth(info) THEN 0 ELSE 1,
   hasDepthBoundsTest |-> IF fromNoDepth(info) THEN 0
                          ELSE IF info.depthBoundsEnable THEN 1 ELSE mask.hasDepthBoundsTest,
   hasStencilTest |-> IF fromNoDepth(info) THEN 0
                      ELSE IF info.stencilTestEnable THEN 1 ELSE mask.hasStencilTest,
   hasBlendConstants |-> IF fromBlendConstants(info) THEN 1 ELSE 0]

\* a call of GraphicsPipelineDynamicStateMask::from on a mask object
From(mask, info) ==
  /\ ~fatal /\ call = NoCall
  /\ call' = [op |-> "from", mask |-> mask, info |-> info, out |-> from(mask, info)]
  /\ UNCHANGED <<layouts, pipelines, pipes, nextPipe, delayedCleanup, compileQueue,
                 compiling, owner, fatal, asyncCompileAllowed, compileRefs>>

FromStep ==
  /\ call = NoCall
  /\ \E mask \in DynStateMasks, info \in DynMaskInfos : From(mask, info)

\* the variant's render pass has no depth attachment: pass class NO_DEPTH, or a
\* native pass without depth at the subpass
C28_NoDepth(info) ==
  IF info.nativeRP # "none" THEN info.nativeRP = "nodepth" ELSE info.depthState = "NO_DEPTH"

\* C28: from() leaves hasDepthBias, hasDepthBoundsTest and hasStencilTest at 0
\* for every variant whose render pass has no depth attachment, whatever the
\* static state; with a depth attachment hasDepthBias is 1 and the depth-bounds
\* and stencil bits are the static state's enables.
C28_DepthBits ==
  call.op = "from" =>
    IF C28_NoDepth(call.info)
      THEN /\ call.out.hasDepthBias = 0
           /\ call.out.hasDepthBoundsTest = 0
           /\ call.out.hasStencilTest = 0
      ELSE /\ call.out.hasDepthBias = 1
           /\ call.out.hasDepthBoundsTest = (IF call.info.depthBoundsEnable THEN 1 ELSE 0)
           /\ call.out.hasStencilTest = (IF call.info.stencilTestEnable THEN 1 ELSE 0)

\* ------------------------------------------------------------ forced sample count
\* the pipeline has a colour target or a depth attachment
C29_Attached(info) == info.rpColorTargetMask # 0 \/ info.hasDepth

\* construction went onto an assertion of checkSampleCount: the one on the
\* attachments, or the one on the capability before it when that one already
\* ended the process
C29_OnAssertionPath(out) ==
  \/ "attachments" \in out.asserted
  \/ out.aborted /\ "caps" \in out.asserted

\* C29 as stated: every non-zero forced count, a forced count of one
\* included, together with a colour target or a depth attachment takes the
\* assertion path.
C29_AsWritten ==
  call.op = "ctor_multisample" /\ call.info.forcedSamplerCount # 0
    /\ C29_Attached(call.info) => C29_OnAssertionPath(call.out)

\* C29: a forced sample count above one is accepted only when the pipeline has
\* neither a colour target nor a depth attachment: together with either it
\* takes the assertion path of checkSampleCount, and without them (and with the
\* device's support) it becomes the rasterization sample count unasserted; a
\* forced count of one is never asserted on and gives one sample, attachments
\* or not; with no forced count the rasterization sample count is the one the
\* render pass resolved to.
C29_ForcedSampleCount ==
  call.op = "ctor_multisample" =>
    LET info == call.info
        out == call.out
    IN /\ info.forcedSamplerCount > 1 /\ C29_Attached(info) => C29_OnAssertionPath(out)
       /\ info.forcedSamplerCount > 1 /\ ~C29_Attached(info)
            /\ BitAnd(info.caps, info.forcedSamplerCount) # 0 =>
              /\ out.asserted = {} /\ ~out.aborted
              /\ out.rasterizationSamples = info.forcedSamplerCount
       /\ info.forcedSamplerCount = 1 =>
            /\ out.asserted \cap {"caps", "attachments"} = {}
            /\ ~out.aborted => out.rasterizationSamples = 1
       /\ info.forcedSamplerCount = 0 =>
            /\ out.asserted \cap {"caps", "attachments"} = {}
            /\ ~out.aborted => out.rasterizationSamples = info.sampleCount

\* four forced samples the device supports, on a pipeline with a colour
\* target, in a build whose assertions do not end the process: the assertion on
\* the attachments is the only one that fails
C29_Witness ==
  /\ call.op = "ctor_multisample"
  /\ call.info.forcedSamplerCount = 4 /\ BitAnd(call.info.caps, 4) # 0
  /\ call.info.rpColorTargetMask # 0 /\ ~call.info.hasDepth
  /\ ~call.info.assertsAbort
  /\ call.out.asserted = {"attachments"}
  /\ call.out.rasterizationSamples = 4

\* ------------------------------------------------------------ read operations
\* an enumerate() that also drops the null slots it passes over
Enumerate_DroppingNulls ==
  /\ ~fatal /\ owner.pc = "idle"
  /\ call' = [op |-> "enumerate",
              calls |-> [k \in 1..Len(SelectSeq(pipelines, LAMBDA p : p # 0)) |->
                           [obj |-> SelectSeq(pipelines, LAMBDA p : p # 0)[k],
                            id |-> makeID(k - 1)]]]
  /\ pipelines' = SelectSeq(pipelines, LAMBDA p : p # 0)
  /\ UNCHANGED <<layouts, pipes, nextPipe, delayedCleanup, compileQueue,
                 compiling, owner, fatal, asyncCompileAllowed, compileRefs>>

\* an enumerate() that calls back for every slot, null or not
enumerate_NoNullCheck(ps) == [k \in 1..Len(ps) |-> [obj |-> ps[k], id |-> makeID(k - 1)]]

RECURSIVE enumerateFrom(_, _)
\* the loop of PipelineManagerStorage::enumerate from slot i on: the calls of
\* callback, each with the pipeline and the identifier made of its index
enumerateFrom(ps, i) ==
  IF i >= Len(ps)
    THEN <<>>
    ELSE (IF ps[i + 1] # 0 THEN <<[obj |-> ps[i + 1], id |-> makeID(i)]>> ELSE <<>>)
         \o enumerateFrom(ps, i + 1)

\* PipelineManagerStorage::enumerate
enumerate(ps) == enumerateFrom(ps, 0)

\* PipelineManagerStorage::enumerateLayouts: one call of clb per layout, in the
\* order of the sequence
enumerateLayouts(ls) == [k \in 1..Len(ls) |-> ls[k]]

\* what get() hands back when it reads past the end of the slot array
WildReference == -1

\* PipelineManagerStorage::get(program): G_ASSERT(checkID(program)), then the
\* slot is read and dereferenced without a range or null check. A read past
\* the end of the array either stops the process or yields a wild reference;
\* a null slot yields a null reference.
Get(program, assertsAbort, crashes) ==
  /\ ~fatal /\ owner.pc = "idle"
  /\ LET index == getIndexFromID(program)
         inRange == index >= 0 /\ index < Len(pipelines)
     IN IF (~checkID(program) /\ assertsAbort) \/ (~inRange /\ crashes)
          THEN Terminate
          ELSE /\ call' = [op |-> "get", program |-> program,
                           ret |-> IF inRange THEN get(program) ELSE WildReference]
               /\ UNCHANGED <<layouts, pipelines, pipes, nextPipe, delayedCleanup,
                              compileQueue, compiling, owner, fatal,
                              asyncCompileAllowed, compileRefs>>

\* PipelineManagerStorage::valid(program)
Valid(program) ==
  /\ ~fatal /\ owner.pc = "idle"
  /\ call' = [op |-> "valid", program |-> program, ret |-> valid(program)]
  /\ UNCHANGED <<layouts, pipelines, pipes, nextPipe, delayedCleanup, compileQueue,
                 compiling, owner, fatal, asyncCompileAllowed, compileRefs>>

\* PipelineManagerStorage::enumerate(callback)
Enumerate ==
  /\ ~fatal /\ owner.pc = "idle"
  /\ call' = [op |-> "enumerate", calls |-> enumerate(pipelines)]
  /\ UNCHANGED <<layouts, pipelines, pipes, nextPipe, delayedCleanup, compileQueue,
                 compiling, owner, fatal, asyncCompileAllowed, compileRefs>>

\* PipelineManagerStorage::enumerateLayouts(clb)
EnumerateLayouts ==
  /\ ~fatal /\ owner.pc = "idle"
  /\ call' = [op |-> "enumerateLayouts", calls |-> enumerateLayouts(layouts)]
  /\ UNCHANGED <<layouts, pipelines, pipes, nextPipe, delayedCleanup, compileQueue,
                 compiling, owner, fatal, asyncCompileAllowed, compileRefs>>

\* the identifiers the read operations are called with: of the storage's kind
\* or of another, with an index inside or past the end of the slot array
ReadIds == {id \in ProgramIds : id.ns # "none" /\ id.idx >= 0}

GetStep ==
  \E program \in ReadIds, assertsAbort \in BOOLEAN, crashes \in BOOLEAN :
    Get(program, assertsAbort, crashes)

ValidStep == \E program \in ReadIds : Valid(program)

\* PipelineManager::visit on a manager whose graphics storage is empty
ReadVisitStep == \E program \in ReadIds : Visit(<<>>, program)

\* the storage filled, emptied and unloaded, and then, with these operations
\* at rest, the read operations called any number of times and in any order
NextReads ==
  \/ call = NoCall /\ AddStep(MaxCompiles, LayoutDescs, {FALSE})
  \/ call = NoCall /\ TakeOutStep
  \/ call = NoCall /\ Unload
  \/ GetStep
  \/ ValidStep
  \/ ReadVisitStep
  \/ Enumerate
  \/ EnumerateLayouts

SpecReads == Init /\ [][NextReads]_vars

C30_ReadOps == {"get", "valid", "visit", "enumerate", "enumerateLayouts"}

\* a step of one of the read operations that returns to its caller
C30_ReadStep == call'.op \in C30_ReadOps /\ (call.op = call'.op => call' # call)

\* the read c returned what the storage with the slot array ps and the layouts
\* ls gives for it; get is held to this for the identifiers of stored pipelines
C30_Returned(ps, ls, c) ==
  CASE c.op = "get" -> storageValid("compute", ps, c.program)
                         => c.ret = ps[getIndexFromID(c.program) + 1]
    [] c.op = "valid" -> c.ret = storageValid("compute", ps, c.program)
    [] c.op = "visit" ->
         LET r == visit([graphics |-> <<>>, compute |-> ps], c.program)
         IN c.ret = r.ret /\ c.invoked = r.invoked
    [] c.op = "enumerate" -> c.calls = enumerate(ps)
    [] c.op = "enumerateLayouts" -> c.calls = enumerateLayouts(ls)

C30_Step ==
  C30_ReadStep =>
    /\ layouts' = layouts
    /\ pipelines' = pipelines
    /\ C30_Returned(pipelines, layouts, call')
    /\ C30_Returned(pipelines', layouts', call')

\* a read returns what the storage it is left on gives for it
C30_LastRead == call.op \in C30_ReadOps => C30_Returned(pipelines, layouts, call)

\* C30: a step of get, valid, visit, enumerate or enumerateLayouts leaves the
\* layouts sequence and the pipelines slot array as they were, length and
\* every slot, and returns what the storage gives before and after it; with
\* add, takeOut and unload at rest, whatever reads follow, the last one has
\* returned what the storage still gives.
C30_ReadsKeepArrays == []C30_LastRead /\ [][C30_Step]_vars

\* an enumerate() has just walked an array with a null slot before a pipeline,
\* with two layouts stored
C30_Witness ==
  /\ ~fatal
  /\ call.op = "enumerate"
  /\ Len(pipelines) = 2 /\ pipelines[1] = 0 /\ pipelines[2] # 0
  /\ Len(call.calls) = 1 /\ call.calls[1].id = makeID(1)
  /\ Len(layouts) = 2

\* ------------------------------------------------------------ compile() runs once
\* a thread enters compile() of p in this step: a worker takes it from the
\* queue, or its creator starts the inline compile of a graphics pipeline (the
\* inline compile of a compute pipeline is inside its constructor)
C31_Enters(p) ==
  \/ p \notin compiling /\ p \in compiling'
  \/ /\ owner.pc = "graphics_constructed" /\ owner.p = p
     /\ owner'.pc = "graphics_compiling"

\* no pipeline a worker is inside compile() of is in the queue again or with
\* its creator's inline compile
C31_OneThread ==
  \A p \in compiling :
    /\ TimesQueued(p) = 0
    /\ ~(owner.pc \in {"graphics_constructed", "graphics_compiling"} /\ owner.p = p)

C31_Step ==
  \A p \in PipeIds :
    C31_Enters(p) =>
      /\ pipes[p].life = "live"
      /\ pipes[p].scratch \in {"heap", "local"}
      /\ pipes[p].phase \in {"constructed", "queued"}
      /\ ~checkCompiled(p)

\* C31: compile() is entered at most once for a pipeline and only while the
\* pipeline still holds its scratch, and never by a thread while another is
\* inside compile() of the same pipeline.
C31_CompileOnce == []C31_OneThread /\ [][C31_Step]_vars

\* ------------------------------------------------------------ shut down once
\* the pipelines shutdown() has not been called on are reachable by one path
\* only: a slot of the array, or the deferred cleanup, and by no slot twice
C32_OnePath ==
  /\ \A i, j \in 1..Len(pipelines) :
       pipelines[i] # 0 /\ pipelines[i] = pipelines[j] => i = j
  /\ \A i \in 1..Len(pipelines) :
       pipelines[i] # 0 =>
         pipes[pipelines[i]].life = "live" /\ pipelines[i] \notin delayedCleanup
  /\ \A p \in delayedCleanup : pipes[p].life = "live"
  /\ owner.pc \in {"cleanup_wait", "cleanup_shutdown"} => owner.p \in delayedCleanup

\* the pipelines unload calls shutdown() on in this step
C32_ByUnload ==
  IF pipelines # <<>> /\ pipelines' = <<>> /\ ~fatal'
    THEN {p \in PipeIds : TimesShutDown(unloadShutdowns(pipelines, layouts), "pipeline", p) > 0}
    ELSE {}

\* the pipeline the deferred cleanup calls shutdown() on in this step
C32_ByCleanup ==
  IF owner.pc = "cleanup_shutdown" /\ owner'.pc = "idle" /\ ~fatal'
    THEN {owner.p}
    ELSE {}

C32_Step ==
  /\ C32_ByUnload \cap C32_ByCleanup = {}
  /\ \A p \in C32_ByUnload :
       /\ TimesShutDown(unloadShutdowns(pipelines, layouts), "pipeline", p) = 1
       /\ pipes[p].life = "live" /\ pipes'[p].life = "dead"
       /\ p \notin delayedCleanup
  /\ \A p \in C32_ByCleanup :
       /\ pipes[p].life = "live" /\ pipes'[p].life = "dead"
       /\ \A i \in 1..Len(pipelines) : pipelines[i] # p
       /\ p \notin delayedCleanup'
  /\ \A p \in PipeIds :
       /\ pipes[p].life = "live" /\ pipes'[p].life = "dead" =>
            p \in C32_ByUnload \cup C32_ByCleanup
       /\ pipes[p].life = "dead" /\ ~fatal' => pipes'[p].life = "dead"

\* C32: a pipeline is shut down at most once. One taken out of the array is in
\* no slot, so unload passes it by and only its deferred cleanup shuts it
\* down; one in a slot is shut down only by unload; shutdown() is called only
\* on pipelines that are still alive, and a dead one is never reached again.
C32_ShutDownOnce == []C32_OnePath /\ [][C32_Step]_vars

\* unload has emptied the storage, destroying the pipeline of a slot, while a
\* pipeline taken out before still awaits its deferred cleanup untouched
C32_Witness ==
  /\ pipelines = <<>>
  /\ \E p \in delayedCleanup, q \in PipeIds :
       pipes[p].life = "live" /\ pipes[q].life = "dead"

\* ------------------------------------------------------------ layout lifetime
\* the layout of every pipeline that has its compile outstanding or awaits
\* its deferred destruction is still in the store
C33_LayoutAlive ==
  \A p \in PipeIds :
    pipes[p].life = "live" /\ (pendingCompilation(p) \/ p \in delayedCleanup) =>
      pipes[p].layout # DanglingLayout

\* a worker that enters compile() of a pipeline reads layout->handle of a
\* layout that has not been shut down
C33_Step ==
  \A p \in PipeIds :
    p \notin compiling /\ p \in compiling' /\ pipes[p].life = "live" =>
      pipes[p].layout # DanglingLayout

\* C33: no layout is destroyed while a pipeline that refers to it has a
\* compile outstanding or awaits deferred destruction; whatever the
\* interleaving of add, takeOut, unload, the workers and the deferred
\* cleanup, compile() reads layout->handle of a layout unload has not shut down.
C33_LayoutOutlivesCompile == []C33_LayoutAlive /\ [][C33_Step]_vars

\* ------------------------------------------------------------ rejected add
\* an add has been stopped by its empty-slot assertion
C34_Rejected == fatal /\ call.op = "add"

\* C34: add resolves its layout before it evaluates the empty-slot assertion:
\* when the assertion stops an add on an occupied slot, the slot array is as
\* the add found it, occupant included, and the layout store is as it was when
\* a layout matched and one entry longer, the new layout last, when none did.
C34_LayoutBeforeAssert ==
  C34_Rejected =>
    LET was == call.entered
        now == call.reached
        i == call.index
    IN /\ i < Len(was.pipelines) /\ was.pipelines[i + 1] # 0
       /\ now.pipelines = was.pipelines
       /\ IF \E k \in 1..Len(was.layouts) : matches(was.layouts[k], call.layoutInfo)
            THEN now.layouts = was.layouts
            ELSE /\ Len(now.layouts) = Len(was.layouts) + 1
                 /\ SubSeq(now.layouts, 1, Len(was.layouts)) = was.layouts
                 /\ matches(now.layouts[Len(now.layouts)], call.layoutInfo)

\* an add on an occupied slot with a layout description the store did not
\* hold has been stopped: the store had grown by then
C34_Witness ==
  /\ C34_Rejected
  /\ Len(call.entered.layouts) = 1
  /\ Len(call.reached.layouts) = 2
  /\ call.reached.pipelines = call.entered.pipelines

\* ------------------------------------------------------------ enumerate
\* the calls are those enumerate() owes the slot array: one for every non-null
\* slot, with the pipeline of the slot and the identifier of its index, none
\* for a null slot, in ascending order of the slots, and for exactly the
\* identifiers valid() accepts
C35_Owed(calls) ==
  /\ \A i \in 1..Len(pipelines) :
       Cardinality({k \in 1..Len(calls) : calls[k].id = makeID(i - 1)})
         = IF pipelines[i] # 0 THEN 1 ELSE 0
  /\ \A k \in 1..Len(calls) :
       /\ calls[k].id \in {makeID(i - 1) : i \in 1..Len(pipelines)}
       /\ calls[k].obj = pipelines[getIndexFromID(calls[k].id) + 1]
       /\ calls[k].obj # 0
  /\ \A k, l \in 1..Len(calls) :
       k < l => getIndexFromID(calls[k].id) < getIndexFromID(calls[l].id)
  /\ {calls[k].id : k \in 1..Len(calls)} = {id \in ProgramIds : valid(id)}

\* C35: enumerate calls back once for every non-null slot and never for a null
\* one, in ascending slot order, with the identifier made of the slot index;
\* the identifiers it passes are those valid() is true for. This holds of the
\* storage in every state add and takeOut lead to, and of every call made.
C35_EnumerateValid ==
  /\ C35_Owed(enumerate(pipelines))
  /\ call.op = "enumerate" => C35_Owed(call.calls)

\* enumerate() has been called after the second of two occupied slots was
\* taken out: one call, for slot 0
C35_Witness ==
  /\ call.op = "enumerate"
  /\ Len(pipelines) = 2 /\ pipelines[1] # 0 /\ pipelines[2] = 0
  /\ delayedCleanup # {}
  /\ Len(call.calls) = 1
  /\ call.calls[1] = [obj |-> pipelines[1], id |-> makeID(0)]

\* ------------------------------------------------------------ mask and pipeline
\* the depth related enables the constructor leaves for the variant from() was
\* called on, for what else of the static state the constructor reads
C36_Ctor(info, rest) ==
  ctorDepthState([nativeRP |-> info.nativeRP, depthState |-> info.depthState,
                  depthTestEnable |-> rest.depthTestEnable,
                  depthWriteEnable |-> rest.depthWriteEnable,
                  depthBoundsEnable |-> info.depthBoundsEnable,
                  stencilTestEnable |-> info.stencilTestEnable,
                  depthClipEnable |-> rest.depthClipEnable,
                  android |-> rest.android])

C36_Rest ==
  [depthTestEnable : BOOLEAN, depthWriteEnable : BOOLEAN, depthClipEnable : BOOLEAN,
   android : BOOLEAN]

\* C36: the mask from() computes for a variant agrees with the pipeline the
\* constructor builds for it: hasDepthBoundsTest, hasStencilTest and
\* hasDepthBias are 1 exactly when depthBoundsTestEnable, stencilTestEnable
\* and depthBiasEnable are true, for a native or a legacy pass, every depth
\* state of the pass class and every static state.
C36_MaskAgreesWithCtor ==
  call.op = "from" =>
    \A rest \in C36_Rest :
      LET ctor == C36_Ctor(call.info, rest)
      IN /\ call.out.hasDepthBoundsTest = 1 <=> ctor.depthBoundsTestEnable
         /\ call.out.hasStencilTest = 1 <=> ctor.stencilTestEnable
         /\ call.out.hasDepthBias = 1 <=> ctor.depthBiasEnable

\* ------------------------------------------------------------ mask independence
\* C37: what from() leaves in the mask is a function of its arguments alone:
\* called with the same arguments on a mask with any other bits before the
\* call it leaves the same hasDepthBias, hasDepthBoundsTest, hasStencilTest
\* and hasBlendConstants.
C37_PriorBitsIgnored ==
  call.op = "from" =>
    \A other \in DynStateMasks : from(other, call.info) = call.out

\* the create-info computations of the GraphicsPipeline constructor and the
\* dynamic state mask of a variant, each over its inputs
NextGraphicsCtor ==
  \/ CtorDepthStateStep
  \/ CtorColorBlendStep
  \/ CtorMultisampleStep
  \/ FromStep

SpecGraphicsCtor == Init /\ [][NextGraphicsCtor]_vars

====
